---- MODULE Spec2Model ----
(***************************************************************************)
(* The interactive list session of tada (src/internal/tui.go): the Bubble  *)
(* Tea model modelTUI, its Update handler, the bubbles list.Model it       *)
(* drives, and runInteractiveList's write-back on exit.  The older cli     *)
(* package variant (src/internal/cli/runner.go) is SpecCli.                *)
(*                                                                         *)
(* Strings are sequences of one-character strings.  A Go struct is a       *)
(* record with the struct's field names.  Update is a pure operator from   *)
(* (model, message) to (model, command), as in the code, where Update has  *)
(* a value receiver and returns the new model.                             *)
(***************************************************************************)
EXTENDS Integers, Sequences, FiniteSets, TLC

VARIABLES
    m,          \* the modelTUI value held by the Bubble Tea program
    pc,         \* "start" (doList entered) | "run" | "done" (event loop ended) |
                \* "returned" (runInteractiveList returned) | "exited" (doList returned)
    msgs,       \* messages in flight produced by commands (FilterMatchesMsg, QuitMsg)
    loaded,     \* the []Item handed to runInteractiveList
    saves,      \* the arguments of the Save calls made so far, in order
    ret,        \* runInteractiveList's result: "none" | "nil" | "err"
    okSaved,    \* whether ok("saved") was printed
    onlyNav,    \* history: no key so far was a toggle, delete, add, edit or undo key
    nkeys,      \* the number of key presses the session has consumed
    file,       \* the data file: "present" | "missing" | "unreadable" | "corrupt"
    stored,     \* the items a present data file holds
    saveErr,    \* whether the Save call returned an error
    exit,       \* doList's exit code, NoExit until it returns
    failed,     \* the prefix of the message fail() printed: "" | "load" | "tui"
    view,       \* what the last View call rendered, NoView before the first
    args,       \* the command line after the flags: a sequence of words
    group,      \* Options.Group, the -group flag
    cred,       \* the credentials file: "missing" | "valid" | "unreadable" | "corrupt"
    credTok,    \* the token a valid credentials file holds
    envTok,     \* the value of the TADA_TOKEN environment variable
    scanned,    \* what doAuthLogin reads from standard input
    errs,       \* the kinds of error the one-shot command met
    printed     \* the numbered lines the list view printed

vars == <<m, pc, msgs, loaded, saves, ret, okSaved, onlyNav, nkeys,
          file, stored, saveErr, exit, failed, view,
          args, group, cred, credTok, envTok, scanned, errs, printed>>

(***************************************************************************)
(* Bounds of the model.                                                    *)
(***************************************************************************)
\* longest text typed into the inline add/edit input
MaxBuf == 2
\* most items the list may hold (add and undo are disabled in the model beyond it)
MaxItems == 3
\* most command results in flight at once
MaxPending == 1
\* longest item sequence a session is started with
MaxInit == 3
\* most key presses in a session
MaxKeys == 6

Min(a, b) == IF a < b THEN a ELSE b
Max(a, b) == IF a > b THEN a ELSE b

\* Go's integer division and remainder truncate toward zero.
GoDiv(a, b) == IF a >= 0 THEN a \div b ELSE -((-a) \div b)
GoMod(a, b) == a - b * GoDiv(a, b)

(***************************************************************************)
(* strings                                                                 *)
(***************************************************************************)
RECURSIVE TrimLeft(_)
TrimLeft(s) == IF s # <<>> /\ Head(s) = " " THEN TrimLeft(Tail(s)) ELSE s

RECURSIVE TrimRight(_)
TrimRight(s) ==
    IF s # <<>> /\ s[Len(s)] = " " THEN TrimRight(SubSeq(s, 1, Len(s) - 1)) ELSE s

TrimSpace(s) == TrimRight(TrimLeft(s))

\* the zero-based positions of rune r in s
Positions(s, r) == {j \in 0..(Len(s) - 1) : s[j + 1] = r}

(***************************************************************************)
(* Item and listItem                                                       *)
(***************************************************************************)
\* a nil *listItem
NilItem == [nil |-> TRUE]

\* runInteractiveList: li = append(li, listItem{Text: it.Title, Done: it.Done})
ToListItems(items) ==
    [i \in 1..Len(items) |-> [Text |-> items[i].Title, Done |-> items[i].Done]]

\* runInteractiveList: out = append(out, Item{Title: li.Text, Done: li.Done})
ToItems(lis) ==
    [i \in 1..Len(lis) |-> [Title |-> lis[i].Text, Done |-> lis[i].Done]]

\* listItem.FilterValue
FilterValue(li) == li.Text

(***************************************************************************)
(* bubbles list.Model, as tui.go configures and calls it.  The list is     *)
(* created with width 0 and height 0 and is resized only inside View, on   *)
(* View's own copy, so the model the program keeps has one item per page.  *)
(***************************************************************************)
\* list.New(li, itemDelegate{}, 0, 0): the height
ListHeight == 0
ListWidth == 0
\* itemDelegate.Height
DelegateHeight == 1
\* itemDelegate.Spacing
DelegateSpacing == 0

\* updatePagination: PerPage = max(1, availHeight/(delegate.Height()+delegate.Spacing()))
PerPage == Max(1, GoDiv(ListHeight, DelegateHeight + DelegateSpacing))

\* list.Model.Items
Items(l) == l.items

\* list.Model.itemsAsFilterItems
itemsAsFilterItems(l) ==
    [i \in 1..Len(l.items) |-> [index |-> i - 1, item |-> l.items[i]]]

\* list.Model.VisibleItems: the items of the filter matches, or all items
VisibleItems(l) ==
    IF l.filterState # "unfiltered"
    THEN [i \in 1..Len(l.filteredItems) |-> l.filteredItems[i].item]
    ELSE l.items

\* list.Model.Index: the selected position in the visible items
Index(l) == l.Page * PerPage + l.cursor

\* paginator.Model.ItemsOnPage
ItemsOnPage(l, totalItems) ==
    IF totalItems < 1 THEN 0
    ELSE Min(l.Page * PerPage + PerPage, totalItems) - l.Page * PerPage

\* paginator.Model.SetTotalPages
SetTotalPages(l, n) ==
    IF n < 1 THEN l
    ELSE [l EXCEPT !.TotalPages =
            GoDiv(n, PerPage) + (IF GoMod(n, PerPage) > 0 THEN 1 ELSE 0)]

\* paginator.Model.OnLastPage
OnLastPage(l) == l.Page = l.TotalPages - 1

\* updatePagination, "Restore index"
RestoreIndex(l, index) ==
    [l EXCEPT !.Page = GoDiv(index, PerPage), !.cursor = GoMod(index, PerPage)]

\* updatePagination, "Make sure the page stays in bounds"
ClampPage(l) ==
    IF l.Page >= l.TotalPages - 1
    THEN [l EXCEPT !.Page = Max(0, l.TotalPages - 1)]
    ELSE l

\* list.Model.updatePagination: recompute the pages, restore the index, clamp the page
updatePagination(l) ==
    ClampPage(RestoreIndex(SetTotalPages(l, Max(1, Len(VisibleItems(l)))), Index(l)))

\* list.Model.updateKeybindings: which of the list's own keys are enabled
updateKeybindings(l) ==
    IF l.filterState = "filtering"
    THEN [l EXCEPT !.kbBrowse = FALSE, !.kbFilter = FALSE,
                   !.kbAccept = (l.filterValue # <<>>)]
    ELSE [l EXCEPT !.kbBrowse = (Len(l.items) # 0),
                   !.kbFilter = (Len(l.items) # 0),
                   !.kbAccept = FALSE]

\* list.Model.resetFiltering
resetFiltering(l) ==
    IF l.filterState = "unfiltered" THEN l
    ELSE updatePagination(updateKeybindings(
            [l EXCEPT !.filterState = "unfiltered",
                      !.filterValue = <<>>,
                      !.filteredItems = <<>>]))

\* list.New followed by the Set... calls of runInteractiveList
NewList(lis) ==
    updateKeybindings(updatePagination(
        [items |-> lis, filterState |-> "unfiltered", filteredItems |-> <<>>,
         filterValue |-> <<>>, Page |-> 0, cursor |-> 0, TotalPages |-> 1,
         width |-> ListWidth, height |-> ListHeight,
         kbBrowse |-> FALSE, kbFilter |-> FALSE, kbAccept |-> FALSE]))

\* insertItemIntoSlice
insertItemIntoSlice(items, item, index) ==
    IF index >= Len(items) THEN Append(items, item)
    ELSE LET i == Max(0, index)
         IN  SubSeq(items, 1, i) \o <<item>> \o SubSeq(items, i + 1, Len(items))

\* removeItemFromSlice and removeFilterMatchFromSlice
removeItemFromSlice(items, index) ==
    IF index >= Len(items) THEN items
    ELSE SubSeq(items, 1, index) \o SubSeq(items, index + 2, Len(items))

\* list.Model.SetItem; tui.go drops the refilter command it returns
SetItem(l, index, item) ==
    updatePagination([l EXCEPT !.items[index + 1] = item])

\* list.Model.InsertItem; tui.go drops the refilter command it returns
InsertItem(l, index, item) ==
    updateKeybindings(updatePagination(
        [l EXCEPT !.items = insertItemIntoSlice(l.items, item, index)]))

\* RemoveItem: if len(m.filteredItems) == 0 { m.resetFiltering() }
ResetIfNoMatch(l) == IF Len(l.filteredItems) = 0 THEN resetFiltering(l) ELSE l

\* RemoveItem: with a filter, the same index is removed from the matches
RemoveMatch(l, index) ==
    IF l.filterState = "unfiltered" THEN l
    ELSE ResetIfNoMatch(
            [l EXCEPT !.filteredItems = removeItemFromSlice(l.filteredItems, index)])

\* RemoveItem without its closing updatePagination
RemoveItem_NoPagination(l, index) ==
    RemoveMatch([l EXCEPT !.items = removeItemFromSlice(l.items, index)], index)

\* list.Model.RemoveItem
RemoveItem(l, index) ==
    updatePagination(
        RemoveMatch([l EXCEPT !.items = removeItemFromSlice(l.items, index)], index))

(***************************************************************************)
(* The list's default filter (fuzzy matching, best score first), for the   *)
(* one-rune terms the model types.                                         *)
(***************************************************************************)
Separators == {"/", "-", "_", " ", ".", "\\"}

\* the bonus of matching term rune at zero-based position j of s
MatchBonus(s, j) ==
    (IF j = 0 THEN 10 ELSE 0) + (IF j # 0 /\ s[j] \in Separators THEN 20 ELSE 0)

\* the position fuzzy keeps of those in P: the first of the best bonus
BestPosition(s, P) ==
    CHOOSE j \in P : \A k \in P :
        \/ MatchBonus(s, j) > MatchBonus(s, k)
        \/ MatchBonus(s, j) = MatchBonus(s, k) /\ j <= k

\* the score of a one-rune match kept at position idx: its bonus, the penalty of
\* the unmatched leading runes, and one off for each unmatched rune
ScoreAt(s, idx) == MatchBonus(s, idx) + Max(idx * (-5), -15) + (1 - Len(s))

\* fuzzy's score of a one-rune term r in s (s contains r)
FuzzyScore(r, s) == ScoreAt(s, BestPosition(s, Positions(s, r)))

\* insert match x into ranked (score descending), after its equals: a stable sort
RECURSIVE InsertRanked(_, _, _)
InsertRanked(ranked, x, r) ==
    IF ranked = <<>> THEN <<x>>
    ELSE IF FuzzyScore(r, FilterValue(Head(ranked).item)) >= FuzzyScore(r, FilterValue(x.item))
         THEN <<Head(ranked)>> \o InsertRanked(Tail(ranked), x, r)
         ELSE <<x>> \o ranked

\* the matches of one-rune term r among items i.., ranked into acc
RECURSIVE RankFrom(_, _, _, _)
RankFrom(l, i, acc, r) ==
    IF i > Len(l.items) THEN acc
    ELSE IF Positions(FilterValue(l.items[i]), r) = {}
         THEN RankFrom(l, i + 1, acc, r)
         ELSE RankFrom(l, i + 1,
                       InsertRanked(acc, [index |-> i - 1, item |-> l.items[i]], r), r)

\* DefaultFilter over the items' FilterValues
DefaultFilter(l, term) == RankFrom(l, 1, <<>>, term[1])

\* filterItems: the FilterMatchesMsg the refilter command computes from its copy of the list
filterItems(l) ==
    IF l.filterValue = <<>> \/ l.filterState = "unfiltered"
    THEN itemsAsFilterItems(l)
    ELSE DefaultFilter(l, l.filterValue)

(***************************************************************************)
(* list.Model.Update                                                       *)
(***************************************************************************)
\* list.Model.CursorUp
CursorUp(l) ==
    LET c == l.cursor - 1
    IN  IF c < 0 /\ l.Page = 0 THEN [l EXCEPT !.cursor = 0]
        ELSE IF c >= 0 THEN [l EXCEPT !.cursor = c]
        ELSE LET l1 == [l EXCEPT !.Page = IF l.Page > 0 THEN l.Page - 1 ELSE l.Page]
             IN  [l1 EXCEPT !.cursor = ItemsOnPage(l1, Len(VisibleItems(l1))) - 1]

\* CursorDown, after m.cursor++ made the cursor c
CursorDownTo(l, c, itemsOnPage) ==
    IF c < itemsOnPage THEN [l EXCEPT !.cursor = c]
    ELSE IF ~OnLastPage(l) THEN [l EXCEPT !.Page = l.Page + 1, !.cursor = 0]
    ELSE IF c > itemsOnPage THEN [l EXCEPT !.cursor = 0]
    ELSE [l EXCEPT !.cursor = itemsOnPage - 1]

\* list.Model.CursorDown
CursorDown(l) == CursorDownTo(l, l.cursor + 1, ItemsOnPage(l, Len(VisibleItems(l))))

\* handleBrowsing, GoToStart
GoToStart(l) == [l EXCEPT !.Page = 0, !.cursor = 0]

\* handleBrowsing, GoToEnd
GoToEnd(l) ==
    LET l1 == [l EXCEPT !.Page = l.TotalPages - 1]
    IN  [l1 EXCEPT !.cursor = ItemsOnPage(l1, Len(VisibleItems(l))) - 1]

\* handleBrowsing, the filter key: open the filter prompt
StartFilter(l) ==
    LET l1 == IF l.filterValue = <<>>
              THEN [l EXCEPT !.filteredItems = itemsAsFilterItems(l)] ELSE l
    IN  updateKeybindings([l1 EXCEPT !.Page = 0, !.cursor = 0,
                                     !.filterState = "filtering"])

\* handleBrowsing's last step, "Keep the index in bounds when paginating"
ClampCursor(l, itemsOnPage) ==
    IF l.cursor > itemsOnPage - 1
    THEN [l EXCEPT !.cursor = Max(0, itemsOnPage - 1)] ELSE l

KeepInBounds(l) == ClampCursor(l, ItemsOnPage(l, Len(VisibleItems(l))))

\* list.Model.handleBrowsing for a key; the list's quit and clear-filter keys
\* (q, esc) never get here: modelTUI.Update takes them first
handleBrowsing(l, k) ==
    IF k = "/" /\ l.kbFilter THEN [l |-> StartFilter(l), cmd |-> [type |-> "none"]]
    ELSE [l |-> KeepInBounds(
                  CASE k = "up" /\ l.kbBrowse   -> CursorUp(l)
                    [] k = "down" /\ l.kbBrowse -> CursorDown(l)
                    [] k = "home" /\ l.kbBrowse -> GoToStart(l)
                    [] k = "end" /\ l.kbBrowse  -> GoToEnd(l)
                    [] OTHER -> l),
          cmd |-> [type |-> "none"]]

\* list.New: filterInput.CharLimit
FilterCharLimit == 64

\* the runes a text input inserts
Runes == {" ", "d", "a", "e", "u", "q", "c", "/"}

\* textinput.Model.Update on a key: the new value (the cursor stays at the end)
InputValue(v, k, limit) ==
    IF k \in Runes THEN (IF Len(v) < limit THEN Append(v, k) ELSE v)
    ELSE IF k = "backspace" /\ v # <<>> THEN SubSeq(v, 1, Len(v) - 1)
    ELSE v

\* the list's AcceptWhileFiltering keys
AcceptKeys == {"enter", "up", "down"}

\* handleFiltering, accept: if m.FilterInput.Value() == "" { m.resetFiltering() }
ResetIfNoTerm(l) == IF l.filterValue = <<>> THEN resetFiltering(l) ELSE l

\* handleFiltering, accepting the filter
AcceptFilter(l) ==
    IF Len(l.items) = 0 THEN l
    ELSE IF Len(VisibleItems(l)) = 0 THEN resetFiltering(l)
    ELSE ResetIfNoTerm(updateKeybindings([l EXCEPT !.filterState = "applied"]))

\* handleFiltering: the filter input's value after the key; accepting blurs the input
FilterInputUpdate(l, k) ==
    IF l.filterState = "applied" THEN l.filterValue
    ELSE InputValue(l.filterValue, k, FilterCharLimit)

\* handleFiltering, "If the filtering input has changed, request updated filtering"
Refilter(l) ==
    [l |-> updatePagination(l),
     cmd |-> [type |-> "filter", matches |-> filterItems(l)]]

\* handleFiltering, from the update of the filter input on
FilterInputStep(l, v) ==
    IF v # l.filterValue
    THEN Refilter([l EXCEPT !.filterValue = v, !.kbAccept = (v # <<>>)])
    ELSE [l |-> updatePagination(l), cmd |-> [type |-> "none"]]

\* handleFiltering's key switch; the cancel key (esc) never gets here
FilterKeySwitch(l, k) == IF k \in AcceptKeys /\ l.kbAccept THEN AcceptFilter(l) ELSE l

\* handleFiltering, after the key switch
AfterKeySwitch(l, k) == FilterInputStep(l, FilterInputUpdate(l, k))

\* list.Model.handleFiltering for a key
handleFiltering(l, k) == AfterKeySwitch(FilterKeySwitch(l, k), k)

\* the list's ForceQuit key
ForceQuitKey == "ctrl+c"

\* list.Model.Update for a key: ForceQuit first, then the state's handler
ListUpdateKey(l, k) ==
    IF k = ForceQuitKey THEN [l |-> l, cmd |-> [type |-> "quit"]]
    ELSE IF l.filterState = "filtering" THEN handleFiltering(l, k)
    ELSE handleBrowsing(l, k)

\* list.Model.Update for a FilterMatchesMsg
ListUpdateMatches(l, matches) == [l EXCEPT !.filteredItems = matches]


(***************************************************************************)
(* modelTUI (src/internal/tui.go)                                          *)
(***************************************************************************)
\* m.ti.CharLimit = 200
CharLimit == 200

ErrEmptyTitle == "Title cannot be empty"

NoCmd == [type |-> "none"]
QuitCmd == [type |-> "quit"]
KeyMsg(k) == [type |-> "key", key |-> k]
FilterMatchesMsg(matches) == [type |-> "filter", matches |-> matches]

\* NewModel starting the session dirty
NewModel_Dirty(items) ==
    [list |-> NewList(ToListItems(items)),
     changed |-> TRUE,
     adding |-> FALSE,
     ti |-> [value |-> <<>>, focus |-> FALSE],
     addErr |-> "",
     editing |-> FALSE,
     editIndex |-> 0,
     editErr |-> "",
     canUndo |-> FALSE,
     undoIndex |-> 0,
     undoItem |-> NilItem]

\* the modelTUI runInteractiveList builds: the list over the items, a fresh text
\* input, every other field at its zero value
NewModel(items) ==
    [list |-> NewList(ToListItems(items)),
     changed |-> FALSE,
     adding |-> FALSE,
     ti |-> [value |-> <<>>, focus |-> FALSE],
     addErr |-> "",
     editing |-> FALSE,
     editIndex |-> 0,
     editErr |-> "",
     canUndo |-> FALSE,
     undoIndex |-> 0,
     undoItem |-> NilItem]

\* textinput.Model.Update: only a focused input takes the message
TiUpdate(ti, msg) ==
    IF ti.focus /\ msg.type = "key"
    THEN [ti EXCEPT !.value = InputValue(ti.value, msg.key, CharLimit)]
    ELSE ti

\* UpdateAdding inserting the new item at the cursor instead of after it
UpdateAdding_AtCursor(mm, msg) ==
    IF msg.type = "key" /\ msg.key = "enter" THEN
        IF TrimSpace(mm.ti.value) = <<>>
        THEN [m |-> [mm EXCEPT !.addErr = ErrEmptyTitle], cmd |-> NoCmd]
        ELSE [m |-> [mm EXCEPT
                      !.list = InsertItem(mm.list, Index(mm.list),
                                   [Text |-> TrimSpace(mm.ti.value), Done |-> FALSE]),
                      !.changed = TRUE,
                      !.ti = [value |-> <<>>, focus |-> FALSE],
                      !.adding = FALSE],
              cmd |-> NoCmd]
    ELSE IF msg.type = "key" /\ msg.key = "esc" THEN
        [m |-> [mm EXCEPT !.adding = FALSE,
                          !.ti = [value |-> <<>>, focus |-> FALSE]],
         cmd |-> NoCmd]
    ELSE [m |-> [mm EXCEPT !.ti = TiUpdate(mm.ti, msg)], cmd |-> NoCmd]

\* UpdateAdding whose escape leaves the typed input in the buffer
UpdateAdding_EscKeepsBuffer(mm, msg) ==
    IF msg.type = "key" /\ msg.key = "enter" THEN
        IF TrimSpace(mm.ti.value) = <<>>
        THEN [m |-> [mm EXCEPT !.addErr = ErrEmptyTitle], cmd |-> NoCmd]
        ELSE [m |-> [mm EXCEPT
                      !.list = InsertItem(mm.list, Index(mm.list) + 1,
                                   [Text |-> TrimSpace(mm.ti.value), Done |-> FALSE]),
                      !.changed = TRUE,
                      !.ti = [value |-> <<>>, focus |-> FALSE],
                      !.adding = FALSE],
              cmd |-> NoCmd]
    ELSE IF msg.type = "key" /\ msg.key = "esc" THEN
        [m |-> [mm EXCEPT !.adding = FALSE, !.ti.focus = FALSE], cmd |-> NoCmd]
    ELSE [m |-> [mm EXCEPT !.ti = TiUpdate(mm.ti, msg)], cmd |-> NoCmd]

\* UpdateAdding committing whatever the trimmed title is, empty or not
UpdateAdding_NoGate(mm, msg) ==
    IF msg.type = "key" /\ msg.key = "enter" THEN
        [m |-> [mm EXCEPT
                 !.list = InsertItem(mm.list, Index(mm.list) + 1,
                                     [Text |-> TrimSpace(mm.ti.value), Done |-> FALSE]),
                 !.changed = TRUE,
                 !.ti = [value |-> <<>>, focus |-> FALSE],
                 !.adding = FALSE],
         cmd |-> NoCmd]
    ELSE IF msg.type = "key" /\ msg.key = "esc" THEN
        [m |-> [mm EXCEPT !.adding = FALSE,
                          !.ti = [value |-> <<>>, focus |-> FALSE]],
         cmd |-> NoCmd]
    ELSE [m |-> [mm EXCEPT !.ti = TiUpdate(mm.ti, msg)], cmd |-> NoCmd]

\* Update, add mode
UpdateAdding(mm, msg) ==
    IF msg.type = "key" /\ msg.key = "enter" THEN
        LET title == TrimSpace(mm.ti.value)
        IN  IF title = <<>>
            THEN [m |-> [mm EXCEPT !.addErr = ErrEmptyTitle], cmd |-> NoCmd]
            ELSE [m |-> [mm EXCEPT
                          !.list = InsertItem(mm.list, Index(mm.list) + 1,
                                              [Text |-> title, Done |-> FALSE]),
                          !.changed = TRUE,
                          !.ti = [value |-> <<>>, focus |-> FALSE],
                          !.adding = FALSE],
                  cmd |-> NoCmd]
    ELSE IF msg.type = "key" /\ msg.key = "esc" THEN
        [m |-> [mm EXCEPT !.adding = FALSE,
                          !.ti = [value |-> <<>>, focus |-> FALSE]],
         cmd |-> NoCmd]
    ELSE [m |-> [mm EXCEPT !.ti = TiUpdate(mm.ti, msg)], cmd |-> NoCmd]

\* UpdateEditing whose esc empties the text input and stays in Editing
UpdateEditing_EscClearsOnly(mm, msg) ==
    IF msg.type = "key" /\ msg.key = "esc"
    THEN [m |-> [mm EXCEPT !.ti.value = <<>>], cmd |-> NoCmd]
    ELSE [m |-> [mm EXCEPT !.ti = TiUpdate(mm.ti, msg)], cmd |-> NoCmd]

\* UpdateEditing ending the session when the title does not validate
UpdateEditing_QuitOnError(mm, msg) ==
    IF msg.type = "key" /\ msg.key = "enter" THEN
        IF TrimSpace(mm.ti.value) = <<>>
        THEN [m |-> [mm EXCEPT !.editErr = ErrEmptyTitle], cmd |-> QuitCmd]
        ELSE [m |-> [mm EXCEPT
                      !.list = IF mm.editIndex >= 0 /\ mm.editIndex < Len(Items(mm.list))
                               THEN SetItem(mm.list, mm.editIndex,
                                        [Items(mm.list)[mm.editIndex + 1]
                                            EXCEPT !.Text = TrimSpace(mm.ti.value)])
                               ELSE mm.list,
                      !.changed = TRUE,
                      !.ti = [value |-> <<>>, focus |-> FALSE],
                      !.editing = FALSE],
              cmd |-> NoCmd]
    ELSE IF msg.type = "key" /\ msg.key = "esc" THEN
        [m |-> [mm EXCEPT !.editing = FALSE,
                          !.ti = [value |-> <<>>, focus |-> FALSE]],
         cmd |-> NoCmd]
    ELSE [m |-> [mm EXCEPT !.ti = TiUpdate(mm.ti, msg)], cmd |-> NoCmd]

\* UpdateEditing writing the edited item back as not done
UpdateEditing_ResetDone(mm, msg) ==
    IF msg.type = "key" /\ msg.key = "enter" THEN
        IF TrimSpace(mm.ti.value) = <<>>
        THEN [m |-> [mm EXCEPT !.editErr = ErrEmptyTitle], cmd |-> NoCmd]
        ELSE [m |-> [mm EXCEPT
                      !.list = IF mm.editIndex >= 0 /\ mm.editIndex < Len(Items(mm.list))
                               THEN SetItem(mm.list, mm.editIndex,
                                        [Text |-> TrimSpace(mm.ti.value), Done |-> FALSE])
                               ELSE mm.list,
                      !.changed = TRUE,
                      !.ti = [value |-> <<>>, focus |-> FALSE],
                      !.editing = FALSE],
              cmd |-> NoCmd]
    ELSE IF msg.type = "key" /\ msg.key = "esc" THEN
        [m |-> [mm EXCEPT !.editing = FALSE,
                          !.ti = [value |-> <<>>, focus |-> FALSE]],
         cmd |-> NoCmd]
    ELSE [m |-> [mm EXCEPT !.ti = TiUpdate(mm.ti, msg)], cmd |-> NoCmd]

\* Update, edit mode
UpdateEditing(mm, msg) ==
    IF msg.type = "key" /\ msg.key = "enter" THEN
        LET title == TrimSpace(mm.ti.value)
        IN  IF title = <<>>
            THEN [m |-> [mm EXCEPT !.editErr = ErrEmptyTitle], cmd |-> NoCmd]
            ELSE LET inRange == mm.editIndex >= 0
                                /\ mm.editIndex < Len(Items(mm.list))
                     m1 == IF inRange
                           THEN [mm EXCEPT
                                  !.list = SetItem(mm.list, mm.editIndex,
                                      [Items(mm.list)[mm.editIndex + 1]
                                          EXCEPT !.Text = title]),
                                  !.changed = TRUE]
                           ELSE mm
                 IN  [m |-> [m1 EXCEPT !.ti = [value |-> <<>>, focus |-> FALSE],
                                       !.editing = FALSE],
                      cmd |-> NoCmd]
    ELSE IF msg.type = "key" /\ msg.key = "esc" THEN
        [m |-> [mm EXCEPT !.editing = FALSE,
                          !.ti = [value |-> <<>>, focus |-> FALSE]],
         cmd |-> NoCmd]
    ELSE [m |-> [mm EXCEPT !.ti = TiUpdate(mm.ti, msg)], cmd |-> NoCmd]

\* UpdateToggle marking the item done rather than flipping it
UpdateToggle_SetDone(mm) ==
    LET i == Index(mm.list)
    IN  IF i >= 0 /\ i < Len(Items(mm.list))
        THEN [mm EXCEPT
               !.list = SetItem(mm.list, i,
                            [Items(mm.list)[i + 1] EXCEPT !.Done = TRUE]),
               !.changed = TRUE]
        ELSE mm

\* UpdateToggle flipping the item without marking the session changed
UpdateToggle_Clean(mm) ==
    LET i == Index(mm.list)
    IN  IF i >= 0 /\ i < Len(Items(mm.list))
        THEN [mm EXCEPT
               !.list = SetItem(mm.list, i,
                            [Items(mm.list)[i + 1] EXCEPT
                                !.Done = ~Items(mm.list)[i + 1].Done])]
        ELSE mm

\* Update, case " ": toggle done on the item at list.Index()
UpdateToggle(mm) ==
    LET i == Index(mm.list)
    IN  IF i >= 0 /\ i < Len(Items(mm.list))
        THEN [mm EXCEPT
               !.list = SetItem(mm.list, i,
                            [Items(mm.list)[i + 1] EXCEPT
                                !.Done = ~Items(mm.list)[i + 1].Done]),
               !.changed = TRUE]
        ELSE mm

\* UpdateDelete keeping the first stashed item when the slot is already in use
UpdateDelete_KeepFirst(mm) ==
    LET i == Index(mm.list)
    IN  IF i >= 0 /\ i < Len(Items(mm.list))
        THEN [mm EXCEPT
               !.undoItem = IF mm.canUndo THEN mm.undoItem ELSE Items(mm.list)[i + 1],
               !.undoIndex = IF mm.canUndo THEN mm.undoIndex ELSE i,
               !.canUndo = TRUE,
               !.list = RemoveItem(mm.list, i),
               !.changed = TRUE]
        ELSE mm

\* Update, case "d": stash the item for undo and remove it
UpdateDelete(mm) ==
    LET i == Index(mm.list)
    IN  IF i >= 0 /\ i < Len(Items(mm.list))
        THEN [mm EXCEPT
               !.undoItem = Items(mm.list)[i + 1],
               !.undoIndex = i,
               !.canUndo = TRUE,
               !.list = RemoveItem(mm.list, i),
               !.changed = TRUE]
        ELSE mm

\* Update, case "a": enter add mode
UpdateAdd(mm) ==
    [mm EXCEPT !.adding = TRUE, !.ti = [value |-> <<>>, focus |-> TRUE]]

\* UpdateEdit remembering the position after the item's as the target
UpdateEdit_NextIndex(mm) ==
    LET i == Index(mm.list)
    IN  IF i >= 0 /\ i < Len(Items(mm.list))
        THEN [mm EXCEPT !.editing = TRUE,
                        !.editIndex = i + 1,
                        !.ti = [value |-> Items(mm.list)[i + 1].Text, focus |-> TRUE]]
        ELSE mm

\* Update, case "e": enter edit mode on the item at list.Index()
UpdateEdit(mm) ==
    LET i == Index(mm.list)
    IN  IF i >= 0 /\ i < Len(Items(mm.list))
        THEN [mm EXCEPT !.editing = TRUE,
                        !.editIndex = i,
                        !.ti = [value |-> Items(mm.list)[i + 1].Text, focus |-> TRUE]]
        ELSE mm

\* UpdateUndo marking the session dirty when there is nothing to undo
UpdateUndo_DirtyAlways(mm) ==
    IF mm.canUndo /\ mm.undoItem # NilItem
    THEN [mm EXCEPT !.list = InsertItem(mm.list,
                                 Min(Max(mm.undoIndex, 0), Len(Items(mm.list))),
                                 mm.undoItem),
                    !.changed = TRUE,
                    !.canUndo = FALSE,
                    !.undoItem = NilItem]
    ELSE [mm EXCEPT !.changed = TRUE]

\* UpdateUndo re-inserting at the head of the list instead of the stashed index
UpdateUndo_AtHead(mm) ==
    IF mm.canUndo /\ mm.undoItem # NilItem
    THEN [mm EXCEPT !.list = InsertItem(mm.list, 0, mm.undoItem),
                    !.changed = TRUE,
                    !.canUndo = FALSE,
                    !.undoItem = NilItem]
    ELSE mm

\* UpdateUndo re-inserting at the end of the list instead of the stashed index
UpdateUndo_Append(mm) ==
    IF mm.canUndo /\ mm.undoItem # NilItem
    THEN [mm EXCEPT !.list = InsertItem(mm.list, Len(Items(mm.list)), mm.undoItem),
                    !.changed = TRUE,
                    !.canUndo = FALSE,
                    !.undoItem = NilItem]
    ELSE mm

\* Update, case "u": re-insert the stashed item at its clamped index
UpdateUndo(mm) ==
    IF mm.canUndo /\ mm.undoItem # NilItem
    THEN LET idx0 == IF mm.undoIndex < 0 THEN 0 ELSE mm.undoIndex
             idx  == IF idx0 > Len(Items(mm.list)) THEN Len(Items(mm.list)) ELSE idx0
         IN  [mm EXCEPT !.list = InsertItem(mm.list, idx, mm.undoItem),
                        !.changed = TRUE,
                        !.canUndo = FALSE,
                        !.undoItem = NilItem]
    ELSE mm

\* UpdateList marking the session dirty
UpdateList_Dirty(mm, msg) ==
    IF msg.type = "key"
    THEN LET r == ListUpdateKey(mm.list, msg.key)
         IN  [m |-> [mm EXCEPT !.list = r.l, !.changed = TRUE], cmd |-> r.cmd]
    ELSE [m |-> [mm EXCEPT !.list = ListUpdateMatches(mm.list, msg.matches)],
          cmd |-> NoCmd]

\* Update, the final delegation: m.list, cmd = m.list.Update(msg)
UpdateList(mm, msg) ==
    IF msg.type = "key"
    THEN LET r == ListUpdateKey(mm.list, msg.key)
         IN  [m |-> [mm EXCEPT !.list = r.l], cmd |-> r.cmd]
    ELSE [m |-> [mm EXCEPT !.list = ListUpdateMatches(mm.list, msg.matches)],
          cmd |-> NoCmd]

\* Update, with neither add nor edit mode active
UpdateBrowsing(mm, msg) ==
    IF msg.type = "key" /\ msg.key \in {"q", "esc"} THEN [m |-> mm, cmd |-> QuitCmd]
    ELSE IF msg.type = "key" /\ msg.key = " " THEN [m |-> UpdateToggle(mm), cmd |-> NoCmd]
    ELSE IF msg.type = "key" /\ msg.key = "d" THEN [m |-> UpdateDelete(mm), cmd |-> NoCmd]
    ELSE IF msg.type = "key" /\ msg.key = "a" THEN [m |-> UpdateAdd(mm), cmd |-> NoCmd]
    ELSE IF msg.type = "key" /\ msg.key = "e" THEN [m |-> UpdateEdit(mm), cmd |-> NoCmd]
    ELSE IF msg.type = "key" /\ msg.key = "u" THEN [m |-> UpdateUndo(mm), cmd |-> NoCmd]
    ELSE UpdateList(mm, msg)

\* Update dispatching on the key without looking at the mode
Update_ModeUnchecked(mm, msg) == UpdateBrowsing(mm, msg)

\* Update without its add-mode branch: the Browsing keys act while adding
Update_NoAddBranch(mm, msg) ==
    IF mm.editing THEN UpdateEditing(mm, msg)
    ELSE UpdateBrowsing(mm, msg)

\* modelTUI.Update
Update(mm, msg) ==
    IF mm.adding THEN UpdateAdding(mm, msg)
    ELSE IF mm.editing THEN UpdateEditing(mm, msg)
    ELSE UpdateBrowsing(mm, msg)


(***************************************************************************)
(* The session: the Bubble Tea event loop around Update, and               *)
(* runInteractiveList's write-back.                                        *)
(***************************************************************************)
\* the items a stored sequence is drawn from
ItemPool == {[Title |-> <<"c">>, Done |-> FALSE], [Title |-> <<"d">>, Done |-> TRUE]}

\* the sequences Load may hand to the session
InitLists == UNION {[1..n -> ItemPool] : n \in 0..MaxInit}

\* the keys the model presses
Keys == {"q", "esc", " ", "d", "a", "e", "u", "enter", "backspace",
         "up", "down", "home", "end", "/", "c", "ctrl+c"}

\* the runes the model types into the add/edit input
TypedRunes == {" ", "d"}

\* the toggle, delete, add, edit and undo keys of Update
MutatingKeys == {" ", "d", "a", "e", "u"}

InText(mm) == mm.adding \/ mm.editing

\* the bounds on what the model types
KeyOffered(mm, k) ==
    /\ InText(mm) /\ k \in Runes => k \in TypedRunes /\ Len(mm.ti.value) < MaxBuf
    /\ InText(mm) => k \notin {"home", "end"}
    /\ ~InText(mm) /\ mm.list.filterState = "filtering" /\ k \in {"c", "/"}
         => k = "c" /\ mm.list.filterValue = <<>>
    /\ ~InText(mm) /\ mm.list.filterState = "filtering" => k \notin {"home", "end"}

NoMsgs == [quit |-> FALSE, filters |-> <<>>]

\* nothing rendered yet
NoView == [w |-> 0, h |-> 0, bar |-> "", err |-> ""]

\* the event loop hands the command Update returned to a goroutine; its message
\* comes back later
Dispatch(cmd) ==
    CASE cmd.type = "quit"   -> [msgs EXCEPT !.quit = TRUE]
      [] cmd.type = "filter" -> [msgs EXCEPT !.filters = Append(@, cmd.matches)]
      [] OTHER -> msgs

\* the event loop: a key press reaches Update
Key(k) ==
    /\ pc = "run"
    /\ nkeys < MaxKeys
    /\ KeyOffered(m, k)
    /\ LET r == Update(m, KeyMsg(k))
       IN  /\ Len(Items(r.m.list)) <= MaxItems
           /\ r.cmd.type = "filter" => Len(msgs.filters) < MaxPending
           /\ m' = r.m
           /\ msgs' = Dispatch(r.cmd)
    /\ onlyNav' = (onlyNav /\ k \notin MutatingKeys)
    /\ nkeys' = nkeys + 1
    /\ UNCHANGED <<pc, loaded, saves, ret, okSaved, file, stored, saveErr, exit, failed, view,
                   args, group, cred, credTok, envTok, scanned, errs, printed>>

\* the event loop: a FilterMatchesMsg in flight reaches Update
DeliverMatches(i) ==
    /\ pc = "run"
    /\ i \in 1..Len(msgs.filters)
    /\ LET r == Update(m, FilterMatchesMsg(msgs.filters[i]))
       IN  /\ m' = r.m
           /\ msgs' = [msgs EXCEPT !.filters = SubSeq(@, 1, i - 1) \o SubSeq(@, i + 1, Len(@))]
    /\ UNCHANGED <<pc, loaded, saves, ret, okSaved, onlyNav, nkeys, file, stored, saveErr, exit, failed, view,
                   args, group, cred, credTok, envTok, scanned, errs, printed>>

\* the event loop: the QuitMsg arrives and p.Run returns the final model
DeliverQuit ==
    /\ pc = "run"
    /\ msgs.quit
    /\ pc' = "done"
    /\ msgs' = NoMsgs
    /\ UNCHANGED <<m, loaded, saves, ret, okSaved, onlyNav, nkeys, file, stored, saveErr, exit, failed, view,
                   args, group, cred, credTok, envTok, scanned, errs, printed>>

\* runInteractiveList: p.Run fails (the program could not start)
RunFails ==
    /\ pc = "run"
    /\ m = NewModel(loaded) /\ msgs = NoMsgs
    /\ pc' = "returned"
    /\ ret' = "err"
    /\ UNCHANGED <<m, msgs, loaded, saves, okSaved, onlyNav, nkeys, file, stored, saveErr, exit, failed, view,
                   args, group, cred, credTok, envTok, scanned, errs, printed>>

\* runInteractiveList after p.Run: nothing changed, nothing is saved
ExitClean ==
    /\ pc = "done"
    /\ ~m.changed
    /\ pc' = "returned"
    /\ ret' = "nil"
    /\ UNCHANGED <<m, msgs, loaded, saves, okSaved, onlyNav, nkeys, file, stored, saveErr, exit, failed, view,
                   args, group, cred, credTok, envTok, scanned, errs, printed>>

\* ExitSaved saving from inside the event loop
ExitSaved_InLoop ==
    /\ pc = "run"
    /\ m.changed
    /\ saves = <<>>
    /\ saves' = Append(saves, ToItems(Items(m.list)))
    /\ okSaved' = TRUE
    /\ saveErr' = FALSE
    /\ UNCHANGED <<m, pc, ret, msgs, loaded, onlyNav, nkeys, file, stored, exit, failed, view,
                   args, group, cred, credTok, envTok, scanned, errs, printed>>

\* ExitSaved writing back the visible items only
ExitSaved_Visible ==
    /\ pc = "done"
    /\ m.changed
    /\ saves' = Append(saves, ToItems(VisibleItems(m.list)))
    /\ okSaved' = TRUE
    /\ saveErr' = FALSE
    /\ pc' = "returned"
    /\ ret' = "nil"
    /\ UNCHANGED <<m, msgs, loaded, onlyNav, nkeys, file, stored, exit, failed, view,
                   args, group, cred, credTok, envTok, scanned, errs, printed>>

\* runInteractiveList after p.Run: the list changed, Save succeeds
ExitSaved ==
    /\ pc = "done"
    /\ m.changed
    /\ saves' = Append(saves, ToItems(Items(m.list)))
    /\ okSaved' = TRUE
    /\ saveErr' = FALSE
    /\ pc' = "returned"
    /\ ret' = "nil"
    /\ UNCHANGED <<m, msgs, loaded, onlyNav, nkeys, file, stored, exit, failed, view,
                   args, group, cred, credTok, envTok, scanned, errs, printed>>

\* ExitSaveFails returning nil from runInteractiveList although Save failed
ExitSaveFails_Swallowed ==
    /\ pc = "done"
    /\ m.changed
    /\ saves' = Append(saves, ToItems(Items(m.list)))
    /\ saveErr' = TRUE
    /\ pc' = "returned"
    /\ ret' = "nil"
    /\ UNCHANGED <<m, msgs, loaded, okSaved, onlyNav, nkeys, file, stored, exit, failed, view,
                   args, group, cred, credTok, envTok, scanned, errs, printed>>

\* runInteractiveList after p.Run: the list changed, Save returns an error
ExitSaveFails ==
    /\ pc = "done"
    /\ m.changed
    /\ saves' = Append(saves, ToItems(Items(m.list)))
    /\ saveErr' = TRUE
    /\ pc' = "returned"
    /\ ret' = "err"
    /\ UNCHANGED <<m, msgs, loaded, okSaved, onlyNav, nkeys, file, stored, exit, failed, view,
                   args, group, cred, credTok, envTok, scanned, errs, printed>>

\* the states the data file can be in when doList runs
Files == {"present", "missing", "unreadable", "corrupt"}

\* doList has not returned
NoExit == -1

\* Load: a missing file is an empty list, not an error; a file that cannot be
\* read or does not parse is an error
Load_MissingFails(f, content) ==
    IF f = "present" THEN [items |-> content, err |-> FALSE]
    ELSE [items |-> <<>>, err |-> TRUE]

\* Load
Load(f, content) ==
    IF f = "missing" THEN [items |-> <<>>, err |-> FALSE]
    ELSE IF f = "present" THEN [items |-> content, err |-> FALSE]
    ELSE [items |-> <<>>, err |-> TRUE]

\* doList: Load succeeds and runInteractiveList builds its model over the items
LoadOk ==
    /\ pc = "start"
    /\ ~Load(file, stored).err
    /\ loaded' = Load(file, stored).items
    /\ m' = NewModel(Load(file, stored).items)
    /\ pc' = "run"
    /\ UNCHANGED <<msgs, saves, ret, okSaved, onlyNav, nkeys, file, stored, saveErr, exit, failed, view,
                   args, group, cred, credTok, envTok, scanned, errs, printed>>

\* doList: Load fails; fail("load: ...") and return 1
LoadFails ==
    /\ pc = "start"
    /\ Load(file, stored).err
    /\ failed' = "load"
    /\ exit' = 1
    /\ pc' = "exited"
    /\ UNCHANGED <<m, msgs, loaded, saves, ret, okSaved, onlyNav, nkeys, file, stored, saveErr, view,
                   args, group, cred, credTok, envTok, scanned, errs, printed>>

\* doList after runInteractiveList: fail("tui: ...") and 1 on an error, else 0
DoListReturns ==
    /\ pc = "returned"
    /\ failed' = IF ret = "err" THEN "tui" ELSE failed
    /\ exit' = IF ret = "err" THEN 1 ELSE 0
    /\ pc' = "exited"
    /\ UNCHANGED <<m, msgs, loaded, saves, ret, okSaved, onlyNav, nkeys, file, stored, saveErr, view,
                   args, group, cred, credTok, envTok, scanned, errs, printed>>

(***************************************************************************)
(* The command line (src/unnamed/part_002): Run and the one-shot commands. *)
(* args[1] is the subcommand; an operand the code looks into (a title      *)
(* word, an index) is a sequence of one-character strings.                 *)
(***************************************************************************)
\* the decimal digits, in order
DigitChars == <<"0", "1", "2", "3", "4", "5", "6", "7", "8", "9">>

\* the value of a sequence of decimal digits
RECURSIVE DecVal(_)
DecVal(ds) ==
    IF ds = <<>> THEN 0
    ELSE DecVal(SubSeq(ds, 1, Len(ds) - 1)) * 10
             + (CHOOSE i \in 1..Len(DigitChars) : DigitChars[i] = ds[Len(ds)]) - 1

\* strconv.Atoi: an optional sign and at least one decimal digit, nothing else
Atoi(w) ==
    LET ds == IF w # <<>> /\ w[1] \in {"+", "-"} THEN Tail(w) ELSE w
    IN  IF ds = <<>> \/ \E i \in 1..Len(ds) : \A j \in 1..Len(DigitChars) : DigitChars[j] # ds[i]
        THEN [n |-> 0, err |-> TRUE]
        ELSE [n |-> IF w[1] = "-" THEN 0 - DecVal(ds) ELSE DecVal(ds), err |-> FALSE]

\* strings.Join(a, " ")
RECURSIVE Join(_)
Join(a) ==
    IF a = <<>> THEN <<>>
    ELSE IF Len(a) = 1 THEN a[1]
    ELSE a[1] \o <<" ">> \o Join(Tail(a))

\* the outcome of a one-shot command: its exit code, the arguments of its Save
\* calls, the kinds of error it met and the message ok() printed
Outcome(code, calls, kinds, okMsg) ==
    [exit |-> code, calls |-> calls, errs |-> kinds, ok |-> okMsg]

\* Save(items) and what follows it in doAdd, doToggle and doRemove
SaveAndReport(items, saveOk, okMsg) ==
    IF saveOk THEN Outcome(0, <<items>>, {}, okMsg)
    ELSE Outcome(1, <<items>>, {"save"}, "")

\* doAdd saving the title as it was given, without strings.TrimSpace
doAdd_Untrimmed(f, content, title, saveOk) ==
    IF Load(f, content).err THEN Outcome(1, <<>>, {"load"}, "")
    ELSE IF title = <<>> THEN Outcome(2, <<>>, {"usage"}, "")
    ELSE SaveAndReport(Append(Load(f, content).items, [Title |-> title, Done |-> FALSE]),
                       saveOk, "added")

\* doAdd
doAdd(f, content, title, saveOk) ==
    IF Load(f, content).err THEN Outcome(1, <<>>, {"load"}, "")
    ELSE IF TrimSpace(title) = <<>> THEN Outcome(2, <<>>, {"usage"}, "")
    ELSE SaveAndReport(Append(Load(f, content).items,
                              [Title |-> TrimSpace(title), Done |-> FALSE]),
                       saveOk, "added")

\* doToggle flipping the item at userIndex, taken as a 0-based position
doToggle_ZeroBased(f, content, userIndex, saveOk) ==
    IF Load(f, content).err THEN Outcome(1, <<>>, {"load"}, "")
    ELSE IF userIndex < 0 \/ userIndex >= Len(Load(f, content).items)
    THEN Outcome(2, <<>>, {"index"}, "")
    ELSE SaveAndReport([Load(f, content).items EXCEPT ![userIndex + 1].Done = ~@],
                       saveOk, "toggled")

\* doToggle
doToggle(f, content, userIndex, saveOk) ==
    IF Load(f, content).err THEN Outcome(1, <<>>, {"load"}, "")
    ELSE IF userIndex < 1 \/ userIndex > Len(Load(f, content).items)
    THEN Outcome(2, <<>>, {"index"}, "")
    ELSE SaveAndReport([Load(f, content).items EXCEPT ![userIndex].Done = ~@],
                       saveOk, "toggled")

\* doRemove
doRemove(f, content, userIndex, saveOk) ==
    IF Load(f, content).err THEN Outcome(1, <<>>, {"load"}, "")
    ELSE IF userIndex < 1 \/ userIndex > Len(Load(f, content).items)
    THEN Outcome(2, <<>>, {"index"}, "")
    ELSE SaveAndReport(SubSeq(Load(f, content).items, 1, userIndex - 1)
                           \o SubSeq(Load(f, content).items, userIndex + 1,
                                     Len(Load(f, content).items)),
                       saveOk, "removed")

(***************************************************************************)
(* Credentials (src/internal/tui.go, lines 368-483) and the auth commands. *)
(***************************************************************************)
\* strings.ToLower over the letters the tokens of the model are made of
ToLower(s) ==
    LET upper == <<"A", "B", "E", "R">>
        lower == <<"a", "b", "e", "r">>
    IN  [i \in 1..Len(s) |->
            IF \E j \in 1..Len(upper) : upper[j] = s[i]
            THEN lower[CHOOSE j \in 1..Len(upper) : upper[j] = s[i]]
            ELSE s[i]]

\* stripBearer: without a leading "bearer " in any case, and trimmed then
stripBearer(s) ==
    IF Len(s) >= 7 /\ SubSeq(ToLower(s), 1, 7) = <<"b", "e", "a", "r", "e", "r", " ">>
    THEN TrimSpace(SubSeq(s, 8, Len(s)))
    ELSE s

\* a nil *TokenInfo
NoToken == [Token |-> <<>>, Source |-> ""]

\* GetToken reading the credentials file before the environment
GetToken_FileFirst(env, c, tok) ==
    IF c = "valid"
    THEN [ti |-> [Token |-> stripBearer(tok), Source |-> "file"], nil |-> FALSE, err |-> FALSE]
    ELSE IF TrimSpace(env) # <<>>
    THEN [ti |-> [Token |-> stripBearer(TrimSpace(env)), Source |-> "env"],
          nil |-> FALSE, err |-> FALSE]
    ELSE IF c = "missing" THEN [ti |-> NoToken, nil |-> TRUE, err |-> FALSE]
    ELSE [ti |-> NoToken, nil |-> TRUE, err |-> TRUE]

\* GetToken: the environment first, then the credentials file, which is
\* "missing", "valid", "unreadable" or "corrupt"; a missing file is no error
GetToken(env, c, tok) ==
    IF TrimSpace(env) # <<>>
    THEN [ti |-> [Token |-> stripBearer(TrimSpace(env)), Source |-> "env"],
          nil |-> FALSE, err |-> FALSE]
    ELSE IF c = "missing" THEN [ti |-> NoToken, nil |-> TRUE, err |-> FALSE]
    ELSE IF c = "valid"
    THEN [ti |-> [Token |-> stripBearer(tok), Source |-> "file"], nil |-> FALSE, err |-> FALSE]
    ELSE [ti |-> NoToken, nil |-> TRUE, err |-> TRUE]

\* SetToken: an empty token and a failed write are errors
SetToken(token, c, tok, writeOk) ==
    IF stripBearer(TrimSpace(token)) = <<>> \/ ~writeOk
    THEN [err |-> TRUE, cred |-> c, credTok |-> tok]
    ELSE [err |-> FALSE, cred |-> "valid", credTok |-> stripBearer(TrimSpace(token))]

\* DeleteToken: removing a file that does not exist is no error
DeleteToken(c, tok, removeOk) ==
    IF c = "missing" THEN [err |-> FALSE, cred |-> c, credTok |-> tok]
    ELSE IF removeOk THEN [err |-> FALSE, cred |-> "missing", credTok |-> <<>>]
    ELSE [err |-> TRUE, cred |-> c, credTok |-> tok]

\* fmt.Scanln(&token): one word on the line, anything else is an error
Scanln(line) ==
    IF TrimSpace(line) = <<>> \/ \E i \in 1..Len(TrimSpace(line)) : TrimSpace(line)[i] = " "
    THEN [token |-> <<>>, err |-> TRUE]
    ELSE [token |-> TrimSpace(line), err |-> FALSE]

\* the outcome of an auth command: its exit code, the kinds of error it met
\* (an error of GetToken counts although the command drops it) and the
\* credentials file it leaves
AuthOutcome(code, kinds, gotErr, c, tok) ==
    [exit |-> code, errs |-> kinds \cup (IF gotErr THEN {"cred"} ELSE {}),
     cred |-> c, credTok |-> tok]

\* doAuthLogin
doAuthLogin(line, c, tok, writeOk) ==
    IF Scanln(line).err THEN AuthOutcome(1, {"scan"}, FALSE, c, tok)
    ELSE IF SetToken(Scanln(line).token, c, tok, writeOk).err
    THEN AuthOutcome(1, {"cred"}, FALSE, c, tok)
    ELSE AuthOutcome(0, {}, FALSE, SetToken(Scanln(line).token, c, tok, writeOk).cred,
                     SetToken(Scanln(line).token, c, tok, writeOk).credTok)

\* doAuthLogout: nothing to delete for a token of the environment
doAuthLogout(env, c, tok, removeOk) ==
    IF ~GetToken(env, c, tok).nil /\ GetToken(env, c, tok).ti.Source = "env"
    THEN AuthOutcome(0, {}, GetToken(env, c, tok).err, c, tok)
    ELSE IF DeleteToken(c, tok, removeOk).err
    THEN AuthOutcome(1, {"cred"}, GetToken(env, c, tok).err, c, tok)
    ELSE AuthOutcome(0, {}, GetToken(env, c, tok).err,
                     DeleteToken(c, tok, removeOk).cred, DeleteToken(c, tok, removeOk).credTok)

\* doAuthStatus: 0 with a token and without
doAuthStatus(env, c, tok) == AuthOutcome(0, {}, GetToken(env, c, tok).err, c, tok)

\* doAuthWhoAmI: 2 without a token
doAuthWhoAmI(env, c, tok) ==
    IF GetToken(env, c, tok).nil
    THEN AuthOutcome(2, {"nologin"}, GetToken(env, c, tok).err, c, tok)
    ELSE AuthOutcome(0, {}, GetToken(env, c, tok).err, c, tok)

(***************************************************************************)
(* Run: one action for each case of its switch.  pc = "main" is the call   *)
(* of Run; a one-shot command ends at pc = "exited" with its exit code.    *)
(***************************************************************************)
\* return code from Run without touching the data file or the credentials
RunReturns(code, kinds) ==
    /\ exit' = code
    /\ errs' = kinds
    /\ pc' = "exited"
    /\ UNCHANGED <<m, msgs, loaded, saves, ret, okSaved, onlyNav, nkeys, file, stored, saveErr,
                   failed, view, args, group, cred, credTok, envTok, scanned, printed>>

\* return what a one-shot command on the data file returned; a Save that
\* succeeded replaced the file, one that failed left it alone or half written
RunOneShot(o, partial) ==
    /\ exit' = o.exit
    /\ errs' = o.errs
    /\ saves' = o.calls
    /\ saveErr' = ("save" \in o.errs)
    /\ file' = IF o.calls = <<>> THEN file
               ELSE IF "save" \notin o.errs THEN "present"
               ELSE IF partial THEN "corrupt" ELSE file
    /\ stored' = IF o.calls = <<>> THEN stored
                 ELSE IF "save" \notin o.errs THEN o.calls[1]
                 ELSE IF partial THEN <<>> ELSE stored
    /\ pc' = "exited"
    /\ UNCHANGED <<m, msgs, loaded, ret, okSaved, onlyNav, nkeys, failed, view,
                   args, group, cred, credTok, envTok, scanned, printed>>

\* return what an auth command returned
RunAuthCmd(o) ==
    /\ exit' = o.exit
    /\ errs' = o.errs
    /\ cred' = o.cred
    /\ credTok' = o.credTok
    /\ pc' = "exited"
    /\ UNCHANGED <<m, msgs, loaded, saves, ret, okSaved, onlyNav, nkeys, file, stored, saveErr,
                   failed, view, args, group, envTok, scanned, printed>>

\* the words of case "help"
HelpWords == {"help", "-h", "--help"}

\* len(args) == 0: PrintHelp and 2
RunNoArgs ==
    /\ pc = "main"
    /\ args = <<>>
    /\ RunReturns(2, {"usage"})

\* case "help", "-h", "--help": PrintHelp and 0
RunHelp ==
    /\ pc = "main"
    /\ args # <<>> /\ args[1] \in HelpWords
    /\ RunReturns(0, {})

\* case "ls": doList
RunLs ==
    /\ pc = "main"
    /\ args # <<>> /\ args[1] = "ls"
    /\ pc' = "start"
    /\ UNCHANGED <<m, msgs, loaded, saves, ret, okSaved, onlyNav, nkeys, file, stored, saveErr,
                   exit, failed, view, args, group, cred, credTok, envTok, scanned, errs, printed>>

\* case "add": usage without a title, else doAdd of the words joined
RunAdd ==
    /\ pc = "main"
    /\ args # <<>> /\ args[1] = "add"
    /\ IF Len(Tail(args)) = 0 THEN RunReturns(2, {"usage"})
       ELSE \E saveOk, partial \in BOOLEAN :
                RunOneShot(doAdd(file, stored, Join(Tail(args)), saveOk), partial)

\* case "done": usage unless one argument that is a number, else doToggle
RunDone ==
    /\ pc = "main"
    /\ args # <<>> /\ args[1] = "done"
    /\ IF Len(Tail(args)) # 1 THEN RunReturns(2, {"usage"})
       ELSE IF Atoi(args[2]).err THEN RunReturns(2, {"usage"})
       ELSE \E saveOk, partial \in BOOLEAN :
                RunOneShot(doToggle(file, stored, Atoi(args[2]).n, saveOk), partial)

\* case "rm": usage unless one argument that is a number, else doRemove
RunRm ==
    /\ pc = "main"
    /\ args # <<>> /\ args[1] = "rm"
    /\ IF Len(Tail(args)) # 1 THEN RunReturns(2, {"usage"})
       ELSE IF Atoi(args[2]).err THEN RunReturns(2, {"usage"})
       ELSE \E saveOk, partial \in BOOLEAN :
                RunOneShot(doRemove(file, stored, Atoi(args[2]).n, saveOk), partial)

\* case "auth": usage unless login, logout, status or whoami follows
RunAuth ==
    /\ pc = "main"
    /\ args # <<>> /\ args[1] = "auth"
    /\ IF Len(Tail(args)) = 0 THEN RunReturns(2, {"usage"})
       ELSE IF args[2] = "login"
       THEN \E writeOk \in BOOLEAN : RunAuthCmd(doAuthLogin(scanned, cred, credTok, writeOk))
       ELSE IF args[2] = "logout"
       THEN \E removeOk \in BOOLEAN : RunAuthCmd(doAuthLogout(envTok, cred, credTok, removeOk))
       ELSE IF args[2] = "status" THEN RunAuthCmd(doAuthStatus(envTok, cred, credTok))
       ELSE IF args[2] = "whoami" THEN RunAuthCmd(doAuthWhoAmI(envTok, cred, credTok))
       ELSE RunReturns(2, {"usage"})

\* after the switch: fail("unknown subcommand: ..."), PrintHelp and 2
RunUnknown ==
    /\ pc = "main"
    /\ args # <<>> /\ args[1] \notin HelpWords \cup {"ls", "add", "done", "rm", "auth"}
    /\ RunReturns(2, {"unknown"})

\* doList is entered: nothing is loaded yet, the data file is in any state
Init ==
    /\ file \in Files
    /\ stored \in (IF file = "present" THEN InitLists ELSE {<<>>})
    /\ loaded = <<>>
    /\ m = NewModel(<<>>)
    /\ pc = "start"
    /\ msgs = NoMsgs
    /\ saves = <<>>
    /\ ret = "none"
    /\ okSaved = FALSE
    /\ onlyNav = TRUE
    /\ nkeys = 0
    /\ saveErr = FALSE
    /\ exit = NoExit
    /\ failed = ""
    /\ view = NoView
    /\ args = <<"ls">>
    /\ group = FALSE
    /\ cred = "missing" /\ credTok = <<>> /\ envTok = <<>> /\ scanned = <<>>
    /\ errs = {}
    /\ printed = <<>>

Next ==
    \/ LoadOk
    \/ LoadFails
    \/ DoListReturns
    \/ \E k \in Keys : Key(k)
    \/ \E i \in 1..MaxPending : DeliverMatches(i)
    \/ DeliverQuit
    \/ RunFails
    \/ ExitClean
    \/ ExitSaved
    \/ ExitSaveFails

Spec == Init /\ [][Next]_vars

\* the event loop delivers a QuitMsg that is in flight: tea.Quit's message is
\* read from the program's message channel like every other
SpecLive == Spec /\ WF_vars(DeliverQuit)


(***************************************************************************)
(* Run from its call: the command lines, data files, credentials and       *)
(* environments the model starts from.                                     *)
(***************************************************************************)
\* the words given as <index>: numbers in and out of range, signed, not numbers
NumberWords ==
    {<<"0">>, <<"1">>, <<"2">>, <<"3">>, <<"4">>, <<"1", "0">>, <<"-", "1">>, <<"+", "2">>,
     <<"x">>, <<"1", "x">>, <<>>}

\* the command lines of add: no title, one word, two words
AddLines ==
    LET words == {<<"x">>, <<" ">>, <<"x", " ">>, <<" ", "y">>}
    IN  {<<"add">>} \cup {<<"add", w>> : w \in words}
            \cup {<<"add", w[1], w[2]>> : w \in words \X words}

\* the command lines of done and rm
IndexLines ==
    UNION {{<<c>>, <<c, <<"1">>, <<"2">>>>} \cup {<<c, n>> : n \in NumberWords} :
           c \in {"done", "rm"}}

\* the command lines of auth
AuthLines ==
    {<<"auth">>} \cup {<<"auth", s>> : s \in {"login", "logout", "status", "whoami", "x"}}

\* the command lines the model runs
ArgLines ==
    {<<>>, <<"ls">>, <<"list">>, <<"edit", <<"1">>, <<"x">>>>}
        \cup {<<w>> : w \in HelpWords} \cup AddLines \cup IndexLines \cup AuthLines

\* Run is called
InitRun ==
    /\ args \in ArgLines
    /\ group = FALSE
    /\ file \in (IF args \in AuthLines THEN {"missing"} ELSE Files)
    /\ stored \in (IF file = "present" THEN InitLists ELSE {<<>>})
    /\ cred \in (IF args \in AuthLines THEN {"missing", "valid", "unreadable", "corrupt"}
                 ELSE {"missing"})
    /\ credTok \in (IF cred = "valid" THEN {<<"t">>, <<"b", "e", "a", "r", "e", "r", " ", "t">>}
                    ELSE {<<>>})
    /\ envTok \in (IF args \in AuthLines
                   THEN {<<>>, <<" ">>, <<"t">>, <<"B", "e", "a", "r", "e", "r", " ", "t">>}
                   ELSE {<<>>})
    /\ scanned \in (IF args = <<"auth", "login">>
                    THEN {<<>>, <<"t">>, <<" ", "t", " ">>, <<"t", " ", "u">>}
                    ELSE {<<>>})
    /\ loaded = <<>>
    /\ m = NewModel(<<>>)
    /\ pc = "main"
    /\ msgs = NoMsgs
    /\ saves = <<>>
    /\ ret = "none"
    /\ okSaved = FALSE
    /\ onlyNav = TRUE
    /\ nkeys = 0
    /\ saveErr = FALSE
    /\ exit = NoExit
    /\ failed = ""
    /\ view = NoView
    /\ errs = {}
    /\ printed = <<>>

NextRun ==
    \/ RunNoArgs
    \/ RunHelp
    \/ RunLs
    \/ RunAdd
    \/ RunDone
    \/ RunRm
    \/ RunAuth
    \/ RunUnknown
    \/ Next

SpecRun == InitRun /\ [][NextRun]_vars

(***************************************************************************)
(* Rendering: modelTUI.View, which the Bubble Tea renderer calls between   *)
(* events. View has a value receiver: it resizes the list of its own copy. *)
(***************************************************************************)
\* the error View shows for the active mode (addErr when adding, editErr when editing)
ShownErr(mm) ==
    IF mm.adding THEN mm.addErr
    ELSE IF mm.editing THEN mm.editErr
    ELSE ""

\* widthHeight: the terminal's size, or 80x24 when it cannot be read
TermSizes == {<<80, 24>>, <<40, 12>>}

\* list.Model.SetSize; the pagination it recomputes is that of the resized value
SetSize(l, w, h) == [l EXCEPT !.width = w, !.height = h]

\* modelTUI.View on the receiver mm: self is the receiver as View leaves it (a copy
\* of the caller's model), out what is rendered. The list gets the height less
\* 4 lines, less 6 under the input bar of Adding and Editing; the bar's title
\* is "" when there is no bar
View(mm, sz) ==
    [self |-> [mm EXCEPT !.list = SetSize(mm.list, sz[1] - 2,
                                          IF mm.adding \/ mm.editing THEN sz[2] - 6
                                          ELSE sz[2] - 4)],
     out  |-> [w |-> sz[1] - 2,
               h |-> IF mm.adding \/ mm.editing THEN sz[2] - 6 ELSE sz[2] - 4,
               bar |-> IF mm.editing THEN "Edit item"
                       ELSE IF mm.adding THEN "Add new item"
                       ELSE "",
               err |-> ShownErr(mm)]]

\* Render with View's resize landing in the session's model
Render_InPlace(sz) ==
    /\ pc = "run"
    /\ view' = View(m, sz).out
    /\ m' = View(m, sz).self
    /\ UNCHANGED <<pc, msgs, loaded, saves, ret, okSaved, onlyNav, nkeys,
                   file, stored, saveErr, exit, failed,
                   args, group, cred, credTok, envTok, scanned, errs, printed>>

\* the renderer calls View on a copy of the session's model and keeps the output
Render(sz) ==
    /\ pc = "run"
    /\ view' = View(m, sz).out
    /\ UNCHANGED <<m, pc, msgs, loaded, saves, ret, okSaved, onlyNav, nkeys,
                   file, stored, saveErr, exit, failed,
                   args, group, cred, credTok, envTok, scanned, errs, printed>>

NextView ==
    \/ Next
    \/ \E sz \in TermSizes : Render(sz)

\* the session with its rendering
SpecView == Init /\ [][NextView]_vars


(***************************************************************************)
(* The cli package's session (src/internal/cli/runner.go): toggle and      *)
(* delete only, and a write-back that reads the model runInteractiveList   *)
(* built, not the one p.Run returns.                                       *)
(***************************************************************************)
\* cli: the modelTUI runInteractiveList builds
CliNewModel(items) == [list |-> NewList(ToListItems(items)), changed |-> FALSE]

\* cli: modelTUI.Update
CliUpdate(mm, msg) ==
    IF msg.type = "key" /\ msg.key \in {"q", "esc"} THEN [m |-> mm, cmd |-> QuitCmd]
    ELSE IF msg.type = "key" /\ msg.key = " " THEN
        LET i == Index(mm.list)
        IN  [m |-> IF i >= 0 /\ i < Len(Items(mm.list))
                   THEN [mm EXCEPT
                          !.list = SetItem(mm.list, i,
                                     [Items(mm.list)[i + 1] EXCEPT
                                         !.Done = ~Items(mm.list)[i + 1].Done]),
                          !.changed = TRUE]
                   ELSE mm,
             cmd |-> NoCmd]
    ELSE IF msg.type = "key" /\ msg.key = "d" THEN
        LET i == Index(mm.list)
        IN  [m |-> IF i >= 0 /\ i < Len(Items(mm.list))
                   THEN [mm EXCEPT !.list = RemoveItem(mm.list, i), !.changed = TRUE]
                   ELSE mm,
             cmd |-> NoCmd]
    ELSE UpdateList(mm, msg)

\* cli: the keys the model presses (a, e and u are not keys of this Update)
CliKeys == Keys \ {"a", "e", "u"}

\* cli, the event loop: a key press reaches Update
CliKey(k) ==
    /\ pc = "run"
    /\ nkeys < MaxKeys
    /\ m.list.filterState = "filtering" /\ k \in {"c", "/"} => k = "c" /\ m.list.filterValue = <<>>
    /\ m.list.filterState = "filtering" => k \notin {"home", "end"}
    /\ LET r == CliUpdate(m, KeyMsg(k))
       IN  /\ r.cmd.type = "filter" => Len(msgs.filters) < MaxPending
           /\ m' = r.m
           /\ msgs' = Dispatch(r.cmd)
    /\ onlyNav' = (onlyNav /\ k \notin MutatingKeys)
    /\ nkeys' = nkeys + 1
    /\ UNCHANGED <<pc, loaded, saves, ret, okSaved, file, stored, saveErr, exit, failed, view,
                   args, group, cred, credTok, envTok, scanned, errs, printed>>

\* cli, the event loop: a FilterMatchesMsg in flight reaches Update
CliDeliverMatches(i) ==
    /\ pc = "run"
    /\ i \in 1..Len(msgs.filters)
    /\ m' = CliUpdate(m, FilterMatchesMsg(msgs.filters[i])).m
    /\ msgs' = [msgs EXCEPT !.filters = SubSeq(@, 1, i - 1) \o SubSeq(@, i + 1, Len(@))]
    /\ UNCHANGED <<pc, loaded, saves, ret, okSaved, onlyNav, nkeys, file, stored, saveErr, exit, failed, view,
                   args, group, cred, credTok, envTok, scanned, errs, printed>>

\* cli, runInteractiveList after p.Run, whose result it drops: the write-back
\* tests and reads its own variable m, the model it handed to tea.NewProgram
CliExit ==
    /\ pc = "done"
    /\ LET local == CliNewModel(loaded)
       IN  \E saveOk \in BOOLEAN :
             /\ saves' = IF local.changed
                         THEN Append(saves, ToItems(Items(local.list))) ELSE saves
             /\ ret' = IF local.changed /\ ~saveOk THEN "err" ELSE "nil"
             /\ okSaved' = (local.changed /\ saveOk)
             /\ saveErr' = (local.changed /\ ~saveOk)
    /\ pc' = "returned"
    /\ UNCHANGED <<m, msgs, loaded, onlyNav, nkeys, file, stored, exit, failed, view,
                   args, group, cred, credTok, envTok, scanned, errs, printed>>

InitCli ==
    /\ loaded \in InitLists
    /\ file = "present" /\ stored = loaded
    /\ saveErr = FALSE /\ exit = NoExit /\ failed = "" /\ view = NoView
    /\ args = <<"ls">> /\ group = FALSE
    /\ cred = "missing" /\ credTok = <<>> /\ envTok = <<>> /\ scanned = <<>>
    /\ errs = {} /\ printed = <<>>
    /\ m = CliNewModel(loaded)
    /\ pc = "run"
    /\ msgs = NoMsgs
    /\ saves = <<>>
    /\ ret = "none"
    /\ okSaved = FALSE
    /\ onlyNav = TRUE
    /\ nkeys = 0

NextCli ==
    \/ \E k \in CliKeys : CliKey(k)
    \/ \E i \in 1..MaxPending : CliDeliverMatches(i)
    \/ DeliverQuit
    \/ CliExit

SpecCli == InitCli /\ [][NextCli]_vars


(***************************************************************************)
(* Properties                                                              *)
(***************************************************************************)
\* the model after key k
KeyStep(mm, k) == Update(mm, KeyMsg(k)).m

Browsing(mm) == ~mm.adding /\ ~mm.editing

\* the cursor is on an item of the underlying sequence: toggle, delete and edit act
CursorOnItem(mm) == Index(mm.list) >= 0 /\ Index(mm.list) < Len(Items(mm.list))

\* every key, pressed by the model or not
AllKeys == Keys \cup Runes

\* the undo slot
UndoSlot(mm) == <<mm.canUndo, mm.undoIndex, mm.undoItem>>

\* C1: in Browsing with the cursor on an item, delete followed at once by undo
\* gives back the item sequence as it was before the delete.
C1_DeleteUndoRoundTrip ==
    (Browsing(m) /\ Len(Items(m.list)) > 0 /\ CursorOnItem(m))
        => Items(KeyStep(KeyStep(m, "d"), "u").list) = Items(m.list)

\* a session that deleted the second of its items: the delete changed the sequence
\* and the undo key restores it
C1_Witness ==
    /\ Browsing(m) /\ m.canUndo /\ m.undoIndex = 1 /\ nkeys = 2
    /\ Len(loaded) = 3 /\ Len(Items(m.list)) = 2
    /\ Items(KeyStep(m, "u").list) = ToListItems(loaded)

\* C2: after two deletions in a row the undo slot holds the second deleted item
\* and its index; one undo restores that item only, and further undo presses
\* change nothing, so the first deleted item never comes back.
C2_SingleLevelUndo ==
    (Browsing(m) /\ CursorOnItem(m) /\ CursorOnItem(KeyStep(m, "d")))
        => LET m1 == KeyStep(m, "d")
               m2 == KeyStep(m1, "d")
               m3 == KeyStep(m2, "u")
           IN  /\ UndoSlot(m2) = <<TRUE, Index(m1.list), Items(m1.list)[Index(m1.list) + 1]>>
               /\ Items(m3.list) = Items(m1.list)
               /\ UndoSlot(m3) = <<FALSE, m2.undoIndex, NilItem>>
               /\ KeyStep(m3, "u") = m3
               /\ Len(Items(KeyStep(KeyStep(m3, "u"), "u").list)) = Len(Items(m.list)) - 1

\* two deletions and one undo happened on a three-item list: only the second
\* deleted item is back
C2_Witness ==
    /\ Len(loaded) = 3 /\ nkeys = 3 /\ Browsing(m)
    /\ m.changed /\ ~m.canUndo /\ m.undoItem = NilItem
    /\ Items(m.list) = ToListItems(Tail(loaded))
    /\ KeyStep(m, "u") = m

\* C3: in Adding or Editing, enter on an empty or whitespace-only buffer leaves
\* the item sequence and the dirty flag as they are, keeps the mode, and sets the
\* mode's error to "Title cannot be empty".
C3_ValidationGate ==
    ((m.adding \/ m.editing) /\ TrimSpace(m.ti.value) = <<>>)
        => LET r == Update(m, KeyMsg("enter"))
           IN  /\ Items(r.m.list) = Items(m.list)
               /\ r.m.changed = m.changed
               /\ r.m.adding = m.adding /\ r.m.editing = m.editing
               /\ (m.adding => r.m.addErr = ErrEmptyTitle)
               /\ (~m.adding => r.m.editErr = ErrEmptyTitle)
               /\ r.cmd = NoCmd

\* a failed commit of a whitespace-only title happened in add mode
C3_Witness ==
    /\ m.adding /\ m.ti.value = <<" ">> /\ m.addErr = ErrEmptyTitle
    /\ ~m.changed /\ Items(m.list) = ToListItems(loaded)

\* C4: in Adding or Editing every key other than enter and escape goes to the
\* text buffer: the list (items, cursor, filter), the undo slot, the dirty flag
\* and the mode are unchanged and no quit is requested.
C4_ModalIsolation ==
    (m.adding \/ m.editing)
        => \A k \in AllKeys \ {"enter", "esc"} :
             LET r == Update(m, KeyMsg(k))
             IN  /\ r.m.list = m.list
                 /\ UndoSlot(r.m) = UndoSlot(m)
                 /\ r.m.changed = m.changed
                 /\ r.m.adding = m.adding /\ r.m.editing = m.editing
                 /\ r.cmd = NoCmd
                 /\ k \in Runes => r.m.ti.value = Append(m.ti.value, k)

\* the delete key was typed in add mode over a non-empty list and is in the buffer
C4_Witness ==
    /\ m.adding /\ m.ti.value = <<"d">> /\ Len(loaded) >= 2
    /\ Items(m.list) = ToListItems(loaded) /\ ~m.changed /\ ~m.canUndo
    /\ pc = "run" /\ ~msgs.quit

\* C5: as long as no toggle, add, edit, delete or undo key was pressed the dirty
\* flag is false and Save has not been called, up to and including the return.
C5_DirtyFlagAccuracy == onlyNav => (~m.changed /\ saves = <<>>)

\* a session that moved the cursor, applied a filter and quit has returned
C5_Witness ==
    /\ onlyNav /\ pc = "returned" /\ ret = "nil" /\ nkeys >= 4
    /\ m.list.filterState = "applied" /\ Index(m.list) > 0

\* C6: the cursor is an index into the visible items:
\* 0 <= cursor < max(1, visibleCount).
C6_BoundsSafety ==
    /\ 0 <= Index(m.list)
    /\ Index(m.list) < Max(1, Len(VisibleItems(m.list)))

\* C7: when the session has ended dirty, Save was called exactly once, with every
\* item of the underlying list in order (title and done flag), hidden or not.
C7_SaveOnQuit ==
    (pc = "returned" /\ m.changed)
        => /\ Len(saves) = 1
           /\ Len(saves[1]) = Len(Items(m.list))
           /\ \A i \in 1..Len(saves[1]) :
                /\ saves[1][i].Title = Items(m.list)[i].Text
                /\ saves[1][i].Done = Items(m.list)[i].Done

\* a dirty session returned while a filter hid some of its items
C7_Witness ==
    /\ pc = "returned" /\ m.changed /\ Len(saves) = 1
    /\ m.list.filterState = "applied"
    /\ Len(VisibleItems(m.list)) < Len(Items(m.list))

\* C8: (cli package) a session whose toggle or delete changed the list has, on
\* return, called Save with the list as it was at quit time.
C8_CliPersists ==
    (pc = "returned" /\ m.changed) => saves = <<ToItems(Items(m.list))>>

\* the filter matches are those of the current items and filter text
ViewFresh(l) == l.filterState # "unfiltered" => l.filteredItems = filterItems(l)

\* the position, in the underlying sequence, of the visible item under the cursor
SelectedPos(l) ==
    IF l.filterState = "unfiltered" THEN Index(l)
    ELSE l.filteredItems[Index(l) + 1].index

CursorOnVisible(l) == Index(l) >= 0 /\ Index(l) < Len(VisibleItems(l))

\* C9: in Browsing the toggle key flips done on exactly the visible item under
\* the cursor, changes nothing else of the sequence, and sets dirty, with or
\* without a filter.
C9_ToggleUnderCursor ==
    (Browsing(m) /\ ViewFresh(m.list) /\ CursorOnVisible(m.list))
        => LET p  == SelectedPos(m.list)
               m1 == KeyStep(m, " ")
           IN  /\ Items(m1.list) =
                     [Items(m.list) EXCEPT ![p + 1].Done = ~Items(m.list)[p + 1].Done]
               /\ m1.changed

\* C10: in Browsing the delete key removes exactly the visible item under the
\* cursor, records that item and its position in the undo slot, keeps the other
\* items in order, and sets dirty, with or without a filter.
C10_DeleteUnderCursor ==
    (Browsing(m) /\ ViewFresh(m.list) /\ CursorOnVisible(m.list))
        => LET p  == SelectedPos(m.list)
               m1 == KeyStep(m, "d")
           IN  /\ Items(m1.list) = removeItemFromSlice(Items(m.list), p)
               /\ UndoSlot(m1) = <<TRUE, p, Items(m.list)[p + 1]>>
               /\ m1.changed

\* the sequence s with x put in at 0-based position p
InsertAt(s, p, x) == SubSeq(s, 1, p) \o <<x>> \o SubSeq(s, p + 1, Len(s))

\* the add input holds a title that commits
AddCommits(mm) == mm.adding /\ TrimSpace(mm.ti.value) # <<>>

\* C11: in Adding, enter on a buffer whose trimmed value t is not empty puts
\* {title: t, done: false} at position cursor+1 of the sequence (at the end when
\* the sequence has no position cursor+1: the list is empty, or the cursor is on
\* or past the last item), keeps the other items in order, makes the sequence one
\* longer, sets dirty and returns to Browsing.
C11_AddCommit ==
    AddCommits(m)
        => LET r == Update(m, KeyMsg("enter"))
               pos == Min(Index(m.list) + 1, Len(Items(m.list)))
           IN  /\ pos >= 0 /\ pos <= Len(Items(m.list))
               /\ Items(r.m.list) =
                     InsertAt(Items(m.list), pos,
                              [Text |-> TrimSpace(m.ti.value), Done |-> FALSE])
               /\ Len(Items(r.m.list)) = Len(Items(m.list)) + 1
               /\ r.m.changed
               /\ Browsing(r.m)

\* a title was typed and committed on a two-item list with the cursor on the first
\* item: the new item sits between the two
C11_Witness ==
    /\ Browsing(m) /\ m.changed /\ nkeys = 3 /\ Len(loaded) = 2
    /\ Index(m.list) = 0
    /\ Items(m.list) = InsertAt(ToListItems(loaded), 1, [Text |-> <<"d">>, Done |-> FALSE])

\* the edit input holds a title that commits
EditCommits(mm) == mm.editing /\ TrimSpace(mm.ti.value) # <<>>

\* C12: in Editing, enter on a buffer whose trimmed value t is not empty replaces
\* the title of the item at the remembered index with t, keeps that item's done
\* flag, the length and every other item, sets dirty and returns to Browsing.
C12_EditCommit ==
    EditCommits(m)
        => LET r == Update(m, KeyMsg("enter"))
           IN  /\ m.editIndex >= 0 /\ m.editIndex < Len(Items(m.list))
               /\ Items(r.m.list) =
                     [Items(m.list) EXCEPT ![m.editIndex + 1].Text = TrimSpace(m.ti.value)]
               /\ r.m.changed
               /\ Browsing(r.m)

\* the second item, a done one, was edited: it has the longer title and is still done
C12_Witness ==
    /\ Browsing(m) /\ m.changed /\ ~m.canUndo /\ Len(loaded) = 2
    /\ m.editIndex = 1 /\ loaded[2].Done
    /\ Items(m.list) =
          [ToListItems(loaded) EXCEPT ![2].Text = Append(loaded[2].Title, "d")]

\* C13: the text-entry error is cleared on every keystroke: in Adding or Editing,
\* after any key that is forwarded to the line editor the mode's error is empty.
C13_ErrorClearedOnKeystroke ==
    (m.adding \/ m.editing)
        => \A k \in AllKeys \ {"enter", "esc"} : ShownErr(KeyStep(m, k)) = ""

\* C14: when the add key or the edit key takes the session from Browsing into
\* Adding or Editing, the error of the mode entered is empty.
C14_EnteringClearsError ==
    Browsing(m)
        => /\ KeyStep(m, "a").adding => ShownErr(KeyStep(m, "a")) = ""
           /\ KeyStep(m, "e").editing => ShownErr(KeyStep(m, "e")) = ""

\* C15: in Browsing with an empty visible set (the list is empty, or the filter
\* matches no item) the toggle, delete and edit keys change neither the item
\* sequence, the undo slot, the dirty flag nor the mode, and set no error.
C15_EmptyVisibleNoOp ==
    (Browsing(m) /\ ViewFresh(m.list) /\ Len(VisibleItems(m.list)) = 0)
        => \A k \in {" ", "d", "e"} :
             LET r == Update(m, KeyMsg(k))
             IN  /\ Items(r.m.list) = Items(m.list)
                 /\ UndoSlot(r.m) = UndoSlot(m)
                 /\ r.m.changed = m.changed
                 /\ Browsing(r.m)
                 /\ r.m.addErr = m.addErr /\ r.m.editErr = m.editErr
                 /\ r.cmd = NoCmd

\* C16: in Browsing with an inactive undo slot the undo key changes nothing (item
\* sequence, cursor, dirty flag, mode) and requests nothing; an undo that restores
\* an item leaves the slot inactive, so a second undo changes nothing.
C16_UndoNothingIgnored ==
    Browsing(m)
        => /\ ~m.canUndo => Update(m, KeyMsg("u")) = [m |-> m, cmd |-> NoCmd]
           /\ m.canUndo =>
                /\ ~KeyStep(m, "u").canUndo
                /\ KeyStep(KeyStep(m, "u"), "u") = KeyStep(m, "u")

\* the second item was deleted and restored, and a further key was pressed: the
\* slot is inactive and the undo key finds nothing to undo
C16_Witness ==
    /\ Browsing(m) /\ ~m.canUndo /\ m.undoItem = NilItem /\ m.undoIndex = 1
    /\ m.changed /\ nkeys = 4 /\ Len(loaded) = 2
    /\ Items(m.list) = ToListItems(loaded)
    /\ KeyStep(m, "u") = m

\* the recorded undo index clamped to [0, current list length]
ClampedUndoIndex(mm) == Min(Max(mm.undoIndex, 0), Len(Items(mm.list)))

\* C17: in Browsing with an active undo slot, the undo key inserts the recorded
\* item (title and done flag as deleted) at the recorded index clamped to
\* [0, current length]; the other items keep their order and the list is one
\* longer, whatever was added or edited since the delete.
C17_UndoIndexClamped ==
    (Browsing(m) /\ m.canUndo)
        => LET m1 == KeyStep(m, "u")
           IN  /\ m.undoItem # NilItem
               /\ ClampedUndoIndex(m) >= 0
               /\ ClampedUndoIndex(m) <= Len(Items(m.list))
               /\ Items(m1.list) = InsertAt(Items(m.list), ClampedUndoIndex(m), m.undoItem)
               /\ Len(Items(m1.list)) = Len(Items(m.list)) + 1
               /\ m1.changed

\* the second of two items was deleted, an item was added, and the undo put the
\* deleted item back at its index, before the added one
C17_Witness ==
    /\ Browsing(m) /\ ~m.canUndo /\ m.undoItem = NilItem /\ m.undoIndex = 1
    /\ Len(loaded) = 2 /\ nkeys = 6
    /\ Items(m.list) = Append(ToListItems(loaded), [Text |-> <<"d">>, Done |-> FALSE])

\* C18: when the session ended dirty and Save returned an error,
\* runInteractiveList returns the error without printing "saved", and doList
\* reports it ("tui: ...") and returns exit code 1.
C18_SaveFailureReported ==
    saveErr
        => /\ m.changed /\ Len(saves) = 1
           /\ pc \in {"returned", "exited"}
           /\ ret = "err"
           /\ ~okSaved
           /\ pc = "exited" => (exit = 1 /\ failed = "tui")

\* doList has returned after a failed Save
C18_Witness ==
    /\ pc = "exited" /\ saveErr /\ m.changed /\ exit = 1 /\ failed = "tui"
    /\ saves = <<ToItems(Items(m.list))>>

\* C19: when Load fails, doList returns 1 having reported the load error, without
\* starting the session and without calling Save; a missing data file is no
\* error: the session starts over the empty sequence.
C19_LoadFailureAborts ==
    /\ file \in {"unreadable", "corrupt"}
         => /\ pc \in {"start", "exited"}
            /\ nkeys = 0 /\ saves = <<>> /\ ret = "none"
            /\ pc = "exited" => (exit = 1 /\ failed = "load")
    /\ (file = "missing" /\ pc # "start")
         => /\ failed # "load"
            /\ loaded = <<>>
            /\ nkeys = 0 => m = NewModel(<<>>)

\* doList has returned 1 on a data file that does not parse
C19_Witness == file = "corrupt" /\ pc = "exited" /\ exit = 1 /\ failed = "load"

\* the sequence s contains the sequence t as a substring
Contains(s, t) == \E i \in 1..(Len(s) - Len(t) + 1) : SubSeq(s, i, i + Len(t) - 1) = t

\* the items of the list whose title contains the filter text, in list order
Projection(l) ==
    LET Hit(li) == Contains(FilterValue(li), l.filterValue)
    IN  SelectSeq(Items(l), Hit)

\* C20: a key that goes to the list (navigation, filter prompt) changes neither
\* the item sequence nor the dirty flag, and under a filter the visible items are
\* exactly the items whose title contains the filter text, in their original order.
C20_FilterProjection ==
    Browsing(m)
        => /\ \A k \in AllKeys \ (MutatingKeys \cup {"q", "esc"}) :
                /\ Items(KeyStep(m, k).list) = Items(m.list)
                /\ KeyStep(m, k).changed = m.changed
           /\ (m.list.filterState # "unfiltered" /\ ViewFresh(m.list))
                => VisibleItems(m.list) = Projection(m.list)

\* C26: in Adding or Editing, escape returns to Browsing with an empty buffer,
\* leaves the list (items, cursor, filter), the undo slot and the dirty flag as
\* they are, and requests no quit.
C26_EscapeCancels ==
    (m.adding \/ m.editing)
        => LET r == Update(m, KeyMsg("esc"))
           IN  /\ Browsing(r.m)
               /\ r.m.ti.value = <<>>
               /\ r.m.list = m.list
               /\ UndoSlot(r.m) = UndoSlot(m)
               /\ r.m.changed = m.changed
               /\ r.cmd = NoCmd

\* an add episode in which a blank was typed and refused was left by escape: the
\* session is in Browsing, clean, the list as loaded
C26_Witness ==
    /\ pc = "run" /\ Browsing(m) /\ m.addErr = ErrEmptyTitle /\ nkeys = 4
    /\ m.ti.value = <<>> /\ ~m.changed /\ ~msgs.quit
    /\ Len(loaded) >= 2 /\ Items(m.list) = ToListItems(loaded)

\* C27: Save is not called before the event loop has ended, it is called at most
\* once, and once it has been called the session's model never changes again.
C27_PersistenceOrdering ==
    /\ [](/\ pc \in {"start", "run", "done"} => saves = <<>>
          /\ Len(saves) <= 1)
    /\ [][saves # <<>> => m' = m]_vars

\* a session of several keys has ended and saved once
C27_Witness == pc = "exited" /\ Len(saves) = 1 /\ nkeys >= 3 /\ exit = 0

\* C28: the quit keys q and esc in Browsing request the quit and leave the model
\* (item sequence, dirty flag) as it is; in Browsing only a quit key requests a
\* quit; in Adding or Editing no key does; a quit is requested only by a step
\* taken in Browsing that leaves the model as it is, and the event loop ends
\* only on a requested quit.
C28_QuitOnlyInBrowsing ==
    /\ [](/\ Browsing(m) =>
               /\ \A k \in {"q", "esc"} :
                    Update(m, KeyMsg(k)) = [m |-> m, cmd |-> QuitCmd]
               /\ \A k \in AllKeys \ {"q", "esc", ForceQuitKey} : Update(m, KeyMsg(k)).cmd # QuitCmd
          /\ (m.adding \/ m.editing) =>
               \A k \in AllKeys : Update(m, KeyMsg(k)).cmd # QuitCmd)
    /\ [][(~msgs.quit /\ msgs'.quit) => (Browsing(m) /\ m' = m)]_vars
    /\ [][(pc = "run" /\ pc' = "done") => (msgs.quit /\ m' = m)]_vars

\* a session in which a validation error was shown ended later, by a quit key
\* pressed in Browsing
C28_Witness ==
    /\ pc = "done" /\ Browsing(m) /\ m.addErr = ErrEmptyTitle /\ nkeys = 4
    /\ Items(m.list) = ToListItems(loaded) /\ ~m.changed

\* C30: when the session starts it is in Browsing, its item sequence is the loaded
\* one (titles, done flags, order), the cursor is at 0, the filter is empty, the
\* dirty flag is false and the undo slot inactive.
C30_InitialState ==
    (pc = "run" /\ nkeys = 0)
        => /\ Browsing(m)
           /\ Len(Items(m.list)) = Len(loaded)
           /\ \A i \in 1..Len(loaded) :
                /\ Items(m.list)[i].Text = loaded[i].Title
                /\ Items(m.list)[i].Done = loaded[i].Done
           /\ Index(m.list) = 0
           /\ m.list.filterState = "unfiltered" /\ m.list.filterValue = <<>>
           /\ VisibleItems(m.list) = Items(m.list)
           /\ ~m.changed
           /\ ~m.canUndo
           /\ loaded = Load(file, stored).items

\* a session started over three stored items that are not all the same
C30_Witness ==
    /\ pc = "run" /\ nkeys = 0 /\ Len(loaded) = 3
    /\ loaded[1] # loaded[2] /\ loaded[2].Done

\* C29: a View call changes nothing of the session: the model (mode, items,
\* cursor, filter, undo slot, buffer, dirty flag), the messages in flight and the
\* saves are as before it, and the list of the session never takes the size View
\* gives to its copy.
C29_ViewPure ==
    /\ [](m.list.width = ListWidth /\ m.list.height = ListHeight)
    /\ [][view' # view => UNCHANGED <<m, pc, msgs, loaded, saves, ret, okSaved,
                   args, group, cred, credTok, envTok, scanned, errs, printed>>]_vars

\* View rendered the add bar with the validation error on a 40x12 terminal, and
\* the session's list still has the size it was built with
C29_Witness ==
    /\ m.adding /\ m.addErr = ErrEmptyTitle /\ Len(Items(m.list)) >= 2
    /\ view = [w |-> 38, h |-> 6, bar |-> "Add new item", err |-> ErrEmptyTitle]
    /\ m.list.height = ListHeight

(***************************************************************************)
(* The printing ls of package cli (src/unnamed/part_001): doList prints    *)
(* numbered lines, flat or grouped, and done / rm take a number back.      *)
(***************************************************************************)
\* the longest title flatLines prints whole
TitleWidth == 80

\* the length flatLines cuts a longer title to, before the dots
TitleCut == 77

\* a printed line that shows an item under a number
ItemLine(n, title, done) ==
    [kind |-> "item", n |-> n, Title |-> title, Done |-> done, text |-> ""]

\* a printed line that shows no item
TextLine(t) == [kind |-> "text", n |-> 0, Title |-> <<>>, Done |-> FALSE, text |-> t]

\* flatLines: each item of the slice it is given under its position i+1 there
flatLines(items) ==
    IF Len(items) = 0 THEN <<TextLine("no items")>>
    ELSE [i \in 1..Len(items) |->
            ItemLine(i,
                     IF Len(items[i].Title) > TitleWidth
                     THEN SubSeq(items[i].Title, 1, TitleCut) \o <<".", ".", ".">>
                     ELSE items[i].Title,
                     items[i].Done)]

\* the items of a slice that are done, or that are not, in order
RECURSIVE SelectDone(_, _)
SelectDone(items, done) ==
    IF items = <<>> THEN <<>>
    ELSE IF items[1].Done = done THEN <<items[1]>> \o SelectDone(Tail(items), done)
    ELSE SelectDone(Tail(items), done)

\* one group of groupLines: its heading, then flatLines of its items
GroupOf(heading, part) ==
    <<TextLine(heading)>> \o (IF Len(part) = 0 THEN <<TextLine("(none)")>> ELSE flatLines(part))

\* groupLines: the pending items, then the done ones
groupLines(items) ==
    GroupOf("Pending", SelectDone(items, FALSE)) \o <<TextLine("")>>
        \o GroupOf("Done", SelectDone(items, TRUE))

\* the shell is about to run a first command of package cli
InitLs ==
    /\ args \in {<<"ls">>} \cup IndexLines
    /\ group \in BOOLEAN
    /\ file \in Files
    /\ stored \in (IF file = "present" THEN InitLists ELSE {<<>>})
    /\ pc = "main"
    /\ printed = <<>>
    /\ exit = NoExit
    /\ errs = {}
    /\ saves = <<>>
    /\ saveErr = FALSE
    /\ loaded = <<>>
    /\ m = NewModel(<<>>)
    /\ msgs = NoMsgs
    /\ ret = "none"
    /\ okSaved = FALSE
    /\ onlyNav = TRUE
    /\ nkeys = 0
    /\ failed = ""
    /\ view = NoView
    /\ cred = "missing" /\ credTok = <<>> /\ envTok = <<>> /\ scanned = <<>>

\* case "ls": doList prints the lines and returns 0, or returns 1 when Load fails
LsList ==
    /\ pc = "main"
    /\ args = <<"ls">>
    /\ printed' = (IF Load(file, stored).err THEN <<>>
                   ELSE IF group THEN groupLines(Load(file, stored).items)
                   ELSE flatLines(Load(file, stored).items))
    /\ exit' = (IF Load(file, stored).err THEN 1 ELSE 0)
    /\ errs' = (IF Load(file, stored).err THEN {"load"} ELSE {})
    /\ pc' = (IF Load(file, stored).err THEN "exited" ELSE "listed")
    /\ UNCHANGED <<m, msgs, loaded, saves, ret, okSaved, onlyNav, nkeys, file, stored, saveErr,
                   failed, view, args, group, cred, credTok, envTok, scanned>>

\* the command has returned and the user runs the next one: Run is called again
LsNext ==
    /\ pc \in {"listed", "exited"}
    /\ args' \in {<<"ls">>} \cup IndexLines
    /\ pc' = "main"
    /\ exit' = NoExit
    /\ errs' = {}
    /\ saves' = <<>>
    /\ saveErr' = FALSE
    /\ UNCHANGED <<m, msgs, loaded, ret, okSaved, onlyNav, nkeys, file, stored, failed, view,
                   group, cred, credTok, envTok, scanned, printed>>

\* Run of package cli: ls prints; done and rm are those of part_002, line for line
NextLs ==
    \/ LsList
    \/ LsNext
    \/ RunDone
    \/ RunRm

SpecLs == InitLs /\ [][NextLs]_vars

(***************************************************************************)
(* The command line: exit codes, dispatch and the one-shot commands.       *)
(***************************************************************************)
\* C21: Run returns 0 only when no error occurred; a load, save or credential
\* I/O failure gives 1; a usage error, a bad or out-of-range index and an
\* unknown subcommand give 2; for every subcommand, the auth ones included.
C21_ExitCodes ==
    pc = "exited" =>
        /\ exit = 0 => (errs = {} /\ failed = "")
        /\ (errs \cap {"load", "save", "cred", "scan"} # {} \/ failed # "") => exit = 1
        /\ errs \cap {"usage", "index", "unknown"} # {} => exit = 2

\* C22: Run does not reject the subcommands of the README examples, list and
\* edit, as unknown.
C22_ListAndEditAccepted ==
    (pc = "exited" /\ args # <<>> /\ args[1] \in {"list", "edit"}) => "unknown" \notin errs

\* C24: one-shot done <index> and rm <index> are 1-based. For 1 <= index <= len
\* they toggle / remove exactly the item at that 1-based position (position
\* index-1 of the slice), keep every other item and the order, call Save with
\* the result and, when Save succeeds, return 0 with the result stored; for an
\* index outside [1, len] they return 2, never call Save and leave the stored
\* sequence unchanged.
C24_OneBasedIndexes ==
    [][(/\ pc = "main"
        /\ args \in IndexLines /\ Len(args) = 2
        /\ ~Atoi(args[2]).err
        /\ ~Load(file, stored).err) =>
       LET n == Atoi(args[2]).n
           items == Load(file, stored).items
       IN  IF 1 <= n /\ n <= Len(items)
           THEN /\ Len(saves') = 1
                /\ IF args[1] = "done"
                   THEN /\ Len(saves'[1]) = Len(items)
                        /\ \A j \in 1..Len(items) :
                              /\ saves'[1][j].Title = items[j].Title
                              /\ saves'[1][j].Done = (IF j = n THEN ~items[j].Done
                                                      ELSE items[j].Done)
                   ELSE /\ Len(saves'[1]) = Len(items) - 1
                        /\ \A j \in 1..(Len(items) - 1) :
                              saves'[1][j] = (IF j < n THEN items[j] ELSE items[j + 1])
                /\ exit' = (IF saveErr' THEN 1 ELSE 0)
                /\ ~saveErr' => (file' = "present" /\ stored' = saves'[1])
           ELSE /\ exit' = 2
                /\ saves' = <<>>
                /\ UNCHANGED <<file, stored>>]_vars

\* done or rm of an item of a list of two or more has saved and returned 0
C24_Witness ==
    /\ pc = "exited"
    /\ args \in IndexLines
    /\ exit = 0
    /\ Len(saves) = 1
    /\ Len(saves[1]) >= 2
    /\ stored = saves[1]

\* C25: one-shot add <title...> appends exactly one item, whose title is the
\* words joined by single spaces and trimmed and whose done flag is false, at
\* the end of the stored sequence, keeps the existing items, calls Save with
\* the result and, when Save succeeds, returns 0; a title that is empty after
\* trimming returns 2 and never calls Save.
C25_AddAppends ==
    [][(/\ pc = "main"
        /\ args \in AddLines /\ Len(args) >= 2
        /\ ~Load(file, stored).err) =>
       LET title == TrimSpace(Join(Tail(args)))
           items == Load(file, stored).items
       IN  IF title # <<>>
           THEN /\ Len(saves') = 1
                /\ Len(saves'[1]) = Len(items) + 1
                /\ SubSeq(saves'[1], 1, Len(items)) = items
                /\ saves'[1][Len(items) + 1] = [Title |-> title, Done |-> FALSE]
                /\ title[1] # " " /\ title[Len(title)] # " "
                /\ exit' = (IF saveErr' THEN 1 ELSE 0)
                /\ ~saveErr' => (file' = "present" /\ stored' = saves'[1])
           ELSE /\ exit' = 2
                /\ saves' = <<>>
                /\ UNCHANGED <<file, stored>>]_vars

\* add of two words, the second with a trailing space, to a list of two or more
\* has saved and returned 0
C25_Witness ==
    /\ pc = "exited"
    /\ args \in AddLines /\ Len(args) = 3 /\ args[3] = <<"x", " ">>
    /\ exit = 0
    /\ Len(saves) = 1
    /\ Len(saves[1]) >= 3
    /\ stored = saves[1]

\* C23: the number the list view prints next to an item, flat or grouped, is
\* the 1-based index by which done <index> and rm <index> address that same
\* item in the stored sequence.
C23_PrintedIndexesAddress ==
    pc = "listed" =>
        \A i \in 1..Len(printed) :
            printed[i].kind = "item" =>
                /\ printed[i].n \in 1..Len(stored)
                /\ stored[printed[i].n].Title = printed[i].Title
                /\ stored[printed[i].n].Done = printed[i].Done
                /\ doToggle(file, stored, printed[i].n, TRUE).calls
                       = <<[stored EXCEPT ![printed[i].n].Done = ~printed[i].Done]>>

(***************************************************************************)
(* The session: cursor, navigation, modes and the dirty flag.              *)
(***************************************************************************)
\* C31: after the delete key removed an item, the cursor is min(old cursor,
\* new length - 1) with a floor of 0, the length being that of the visible
\* items: deleting the last item moves the cursor to the new last item and
\* deleting the only item leaves the cursor at 0.
C31_CursorAfterDelete ==
    (Browsing(m) /\ CursorOnItem(m)) =>
        Index(KeyStep(m, "d").list)
            = Max(0, Min(Index(m.list), Len(VisibleItems(KeyStep(m, "d").list)) - 1))

\* the last item of a list of three was deleted: the cursor is on the new last
\* item, where the delete key acts again
C31_Witness ==
    /\ Browsing(m) /\ m.canUndo
    /\ Len(loaded) = 3 /\ Len(Items(m.list)) = 2
    /\ m.undoIndex = 2
    /\ Index(m.list) = 1
    /\ Index(KeyStep(m, "d").list) = 0

\* C32: in Browsing no navigation key changes the item sequence, the undo slot
\* or the dirty flag; with the list's navigation keys active (no filter prompt
\* open) and the cursor on a visible item, up at the first visible item and
\* down at the last one leave the cursor where it is, and any other up or down
\* moves it by exactly one.
C32_NavigationNoWrap ==
    Browsing(m) =>
        /\ \A k \in {"up", "down", "home", "end"} :
              /\ Items(KeyStep(m, k).list) = Items(m.list)
              /\ UndoSlot(KeyStep(m, k)) = UndoSlot(m)
              /\ KeyStep(m, k).changed = m.changed
              /\ Browsing(KeyStep(m, k))
        /\ (m.list.filterState # "filtering" /\ CursorOnVisible(m.list)) =>
              /\ Index(KeyStep(m, "up").list) = Max(0, Index(m.list) - 1)
              /\ Index(KeyStep(m, "down").list)
                    = Min(Index(m.list) + 1, Len(VisibleItems(m.list)) - 1)
              /\ VisibleItems(KeyStep(m, "up").list) = VisibleItems(m.list)
              /\ VisibleItems(KeyStep(m, "down").list) = VisibleItems(m.list)

\* C33: while the filter prompt is open in Browsing, the characters that are
\* also Browsing shortcuts (space, d, a, e, u, q) go to the list as filter text:
\* they do not toggle, delete, add, edit, undo or quit, and typing a filter
\* leaves the item sequence and the dirty flag unchanged.
C33_FilterPromptIsolation ==
    (Browsing(m) /\ m.list.filterState = "filtering") =>
        \A k \in {" ", "d", "a", "e", "u", "q"} :
            /\ Update(m, KeyMsg(k)).cmd # QuitCmd
            /\ Browsing(KeyStep(m, k))
            /\ Items(KeyStep(m, k).list) = Items(m.list)
            /\ KeyStep(m, k).changed = m.changed
            /\ UndoSlot(KeyStep(m, k)) = UndoSlot(m)
            /\ KeyStep(m, k).list.filterValue
                  = InputValue(m.list.filterValue, k, FilterCharLimit)

\* C34: in Browsing with an item under the cursor, the edit key enters Editing
\* with the buffer equal to that item's title and the target index equal to
\* that item's position in the sequence, and leaves the sequence and the dirty
\* flag unchanged; with no item under the cursor the session stays in Browsing.
C34_EditKey ==
    /\ (Browsing(m) /\ ViewFresh(m.list) /\ CursorOnVisible(m.list)) =>
           /\ KeyStep(m, "e").editing /\ ~KeyStep(m, "e").adding
           /\ KeyStep(m, "e").ti.value = Items(m.list)[SelectedPos(m.list) + 1].Text
           /\ KeyStep(m, "e").editIndex = SelectedPos(m.list)
           /\ Items(KeyStep(m, "e").list) = Items(m.list)
           /\ KeyStep(m, "e").changed = m.changed
    /\ (Browsing(m) /\ ~CursorOnVisible(m.list)) => Browsing(KeyStep(m, "e"))

\* C35: in every reachable state the session is in exactly one of Browsing,
\* Adding and Editing: the adding and editing flags are never both true, and
\* no key makes them so.
C35_ModeExclusive ==
    /\ ~(m.adding /\ m.editing)
    /\ \A k \in AllKeys : ~(KeyStep(m, k).adding /\ KeyStep(m, k).editing)

\* the session is in Editing after an Adding episode in which a commit failed
C35_Witness ==
    /\ m.editing /\ ~m.adding
    /\ m.addErr = ErrEmptyTitle
    /\ m.ti.focus

\* C36: in every reachable state in Editing the target index is a position of
\* the item sequence, 0 <= target < length, so enter on a buffer whose trimmed
\* value is not empty always replaces the title of the item at the target and
\* sets dirty: the range guard at commit never drops the edit.
C36_EditTargetValid ==
    m.editing =>
        /\ 0 <= m.editIndex /\ m.editIndex < Len(Items(m.list))
        /\ EditCommits(m) =>
              /\ KeyStep(m, "enter").changed
              /\ Browsing(KeyStep(m, "enter"))
              /\ Items(KeyStep(m, "enter").list)
                    = [Items(m.list) EXCEPT ![m.editIndex + 1].Text = TrimSpace(m.ti.value)]

\* Editing the last of three items of a clean session, with a buffer that commits
C36_Witness ==
    /\ m.editing /\ ~m.changed
    /\ Len(Items(m.list)) = 3 /\ m.editIndex = 2
    /\ EditCommits(m)
    /\ KeyStep(m, "enter").changed

\* C37: in every reachable state of the session, dirty = false implies that
\* the item sequence is the loaded one, same items in the same order; every
\* key that changes the sequence sets dirty in the same step.
C37_CleanMeansLoaded ==
    /\ (pc \in {"run", "done"} /\ ~m.changed) => ToItems(Items(m.list)) = loaded
    /\ \A k \in AllKeys :
          Items(KeyStep(m, k).list) # Items(m.list) => KeyStep(m, k).changed

\* a session that opened and left a text entry, so not navigation only, is
\* still clean on its three loaded items, and a toggle would now change them
C37_Witness ==
    /\ pc = "run" /\ Browsing(m) /\ ~m.changed /\ ~onlyNav
    /\ Len(loaded) = 3
    /\ Items(KeyStep(m, " ").list) # Items(m.list)

\* C38: once dirty is true no step of the session makes it false again; the
\* toggle key pressed twice on the same item (the cursor stays where it is
\* between the two presses) gives back the sequence it started from with dirty
\* true; and a session that returned dirty has called Save.
C38_DirtyMonotone ==
    /\ [][m.changed => m'.changed]_vars
    /\ [](/\ \A k \in AllKeys : m.changed => KeyStep(m, k).changed
          /\ (Browsing(m) /\ CursorOnItem(m)) =>
               /\ Items(KeyStep(m, " ").list) # Items(m.list)
               /\ KeyStep(m, " ").changed
               /\ KeyStep(KeyStep(m, " "), " ").changed
               /\ Index(KeyStep(m, " ").list) = Index(m.list) =>
                    Items(KeyStep(KeyStep(m, " "), " ").list) = Items(m.list)
          /\ (pc = "returned" /\ m.changed) => Len(saves) = 1)

\* one key into the session the sequence differs from the loaded one and a toggle
\* restores it: the key was a toggle, and the session is dirty
C38_Witness ==
    /\ pc = "run" /\ nkeys = 1 /\ Browsing(m) /\ CursorOnItem(m) /\ m.changed
    /\ Len(loaded) = 3
    /\ Items(m.list) # ToListItems(loaded)
    /\ Index(KeyStep(m, " ").list) = Index(m.list)
    /\ Items(KeyStep(m, " ").list) = ToListItems(loaded)
    /\ KeyStep(m, " ").changed

\* C39: in every state of the running session, Browsing, Adding or Editing,
\* with or without a validation error, the second of two consecutive esc keys at
\* the latest requests the quit; and a requested quit ends the event loop.
C39_TwoEscapesQuit ==
    /\ [](pc = "run" =>
            \/ Update(m, KeyMsg("esc")).cmd = QuitCmd
            \/ /\ ~Browsing(m)
               /\ Browsing(KeyStep(m, "esc"))
               /\ Update(KeyStep(m, "esc"), KeyMsg("esc")).cmd = QuitCmd)
    /\ (pc = "run" /\ msgs.quit) ~> (pc = "done")

\* Editing with the empty-title error showing: the first esc leaves the mode and
\* only the second requests the quit
C39_Witness ==
    /\ pc = "run" /\ m.editing /\ m.editErr = ErrEmptyTitle
    /\ Update(m, KeyMsg("esc")).cmd # QuitCmd
    /\ Update(KeyStep(m, "esc"), KeyMsg("esc")).cmd = QuitCmd

(***************************************************************************)
(* Credentials: where the token comes from, and logout.                    *)
(***************************************************************************)

\* C40: a TADA_TOKEN that is not blank is the token GetToken returns, with
\* source "env" and without error, whatever the credentials file is (the value
\* is returned without the blanks around it and without a "bearer " prefix);
\* `auth logout` with such a token exits 0 and leaves the credentials file as it
\* is; without one, a logout that exits 0 leaves GetToken reporting no token and
\* no error, and a logout with no credentials file exits 0.
C40_TokenPrecedence ==
    /\ [](TrimSpace(envTok) # <<>> =>
            /\ ~GetToken(envTok, cred, credTok).nil
            /\ ~GetToken(envTok, cred, credTok).err
            /\ GetToken(envTok, cred, credTok).ti.Source = "env"
            /\ GetToken(envTok, cred, credTok).ti.Token = stripBearer(TrimSpace(envTok))
            /\ GetToken(envTok, cred, credTok).ti.Token # <<>>
            /\ \A i \in 1..Len(GetToken(envTok, cred, credTok).ti.Token) :
                 \E j \in 1..Len(envTok) :
                    GetToken(envTok, cred, credTok).ti.Token[i] = envTok[j])
    /\ [][(pc = "main" /\ args = <<"auth", "logout">>) =>
            /\ envTok' = envTok
            /\ TrimSpace(envTok) # <<>> =>
                 exit' = 0 /\ cred' = cred /\ credTok' = credTok
            /\ (TrimSpace(envTok) = <<>> /\ exit' = 0) =>
                 /\ GetToken(envTok', cred', credTok').nil
                 /\ ~GetToken(envTok', cred', credTok').err
            /\ (TrimSpace(envTok) = <<>> /\ cred = "missing") =>
                 exit' = 0 /\ cred' = "missing"]_vars

\* logout has exited 0 with a token in the environment and a valid credentials
\* file, which is still there
C40_Witness ==
    /\ pc = "exited" /\ args = <<"auth", "logout">> /\ exit = 0
    /\ TrimSpace(envTok) # <<>>
    /\ cred = "valid" /\ credTok # <<>>
    /\ GetToken(envTok, cred, credTok).ti.Source = "env"

====
